---------------------------- MODULE Spec2Model ----------------------------
(***************************************************************************)
(* Pymodd: translation of a modd.io JSON export into pymodd source.       *)
(* The module models the argument parser and alignment resolver           *)
(* (game_data/argument.rs), the variable resolver's enum-name              *)
(* deduplication (game_data/variable_categories.rs), the renderer of       *)
(* script actions (project_generator/scripts_file.rs) and the walk that    *)
(* lists the directory in the manifest (generator/mapping_file.rs).        *)
(*                                                                         *)
(* Strings the code takes apart (argument names, parameter names, enum     *)
(* names) are sequences of one-character strings; strings it only          *)
(* compares or copies (function tags, scalar payloads) are TLA+ strings.   *)
(***************************************************************************)
EXTENDS Integers, Sequences, FiniteSets, TLC

VARIABLES
    pc,                          \* "call" before the operation ran, "return" after
    arguments,                   \* align: the argument list passed in
    pymodd_structure_parameters, \* align: the canonical parameter list
    aligned_args,                \* align: Vec<Option<Argument>> after the scan
    unplaced,                    \* align: `arguments` after the scan removed the matches
    aligned,                     \* align: the returned Vec<Argument>
    variables,                   \* dedup: the Vec<Variable> passed in
    resolved,                    \* dedup: the returned Vec<Variable>
    object_data,                 \* parse: the Map<String, Value> passed in
    args,                        \* parse: the returned Vec<Argument>
    categories_to_variables,     \* render: the categories, in the map's iteration order
    root_directory,              \* render: the Directory script keys are resolved in
    script_actions,              \* render: the Vec<Action> passed in
    content,                     \* render: the returned String
    scripts_data,                \* directory: the flat node map passed in
    directory,                   \* directory: the Directory built from it
    game_items,                  \* directory: what the iterator has yet to yield
    elements,                    \* directory: the Vec<String> built so far
    curr_depth,                  \* directory: the depth counter
    a_script,                    \* script: the Script passed to build_script_content
    game_data,                   \* game data: the "data" object of the document
    category_to_variables,       \* game data: the map CategoriesToVariables::parse built
    category_to_entity_types,    \* game data: the map CategoryToEntityTypes::parse built
    generated                    \* generation: what each run so far has produced

vars == <<pc, arguments, pymodd_structure_parameters, aligned_args, unplaced,
          aligned, variables, resolved, object_data, args,
          categories_to_variables, root_directory, script_actions, content,
          scripts_data, directory, game_items, elements, curr_depth,
          a_script, game_data, category_to_variables, category_to_entity_types,
          generated>>

alignVars == <<arguments, pymodd_structure_parameters, aligned_args, unplaced, aligned>>
dedupVars == <<variables, resolved>>
parseVars == <<object_data, args>>
renderVars == <<categories_to_variables, root_directory, script_actions, content>>
directoryVars == <<scripts_data, directory, game_items, elements, curr_depth>>
scriptVars == <<a_script>>
gameDataVars == <<game_data, category_to_variables, category_to_entity_types, generated>>

-----------------------------------------------------------------------------
(* Bounds of the model *)

\* longest argument list handed to the alignment
MaxArgs == 3
\* longest canonical parameter list
MaxParams == 3
\* longest variable list of one category
MaxVars == 3
\* most keys of one parsed JSON object
MaxKeys == 2

-----------------------------------------------------------------------------
(* Characters and strings *)

LowerChars == <<"a","b","c","d","e","f","g","h","i","j","k","l","m",
                "n","o","p","q","r","s","t","u","v","w","x","y","z">>
UpperChars == <<"A","B","C","D","E","F","G","H","I","J","K","L","M",
                "N","O","P","Q","R","S","T","U","V","W","X","Y","Z">>
DigitChars == <<"0","1","2","3","4","5","6","7","8","9">>

LowerSet == {LowerChars[i] : i \in 1..Len(LowerChars)}
UpperSet == {UpperChars[i] : i \in 1..Len(UpperChars)}
DigitSet == {DigitChars[i] : i \in 1..Len(DigitChars)}
LowerOfUpper ==
    [c \in UpperSet |-> LowerChars[CHOOSE i \in 1..Len(UpperChars) : UpperChars[i] = c]]

is_lowercase(c) == c \in LowerSet
is_uppercase(c) == c \in UpperSet
is_alphanumeric(c) == c \in LowerSet \/ c \in UpperSet \/ c \in DigitSet

to_lowercase_char(c) == IF c \in UpperSet THEN LowerOfUpper[c] ELSE c

to_lowercase(s) == [i \in 1..Len(s) |-> to_lowercase_char(s[i])]

\* str::contains: needle occurs in hay as a contiguous substring
contains(hay, needle) ==
    \E i \in 0..(Len(hay) - Len(needle)) :
        SubSeq(hay, i + 1, i + Len(needle)) = needle

\* s.split(|c| !c.is_alphanumeric()): the maximal alphanumeric runs and the
\* empty pieces between adjacent separators
RECURSIVE split_non_alphanumeric(_, _)
split_non_alphanumeric(s, cur) ==
    IF s = <<>> THEN <<cur>>
    ELSE IF is_alphanumeric(Head(s))
         THEN split_non_alphanumeric(Tail(s), Append(cur, Head(s)))
         ELSE <<cur>> \o split_non_alphanumeric(Tail(s), <<>>)

\* heck's transform(): the words of one alphanumeric run.  A boundary falls
\* after a lowercase (or digit after lowercase) character followed by an
\* uppercase one, and before the last capital of an acronym that is followed
\* by a lowercase character.
RECURSIVE split_word(_, _, _, _)
split_word(word, i, init, mode) ==
    IF i > Len(word) THEN <<>>
    ELSE IF i = Len(word) THEN <<SubSeq(word, init, Len(word))>>
    ELSE LET c == word[i]
             next == word[i + 1]
             next_mode == IF is_lowercase(c) THEN "Lowercase"
                          ELSE IF is_uppercase(c) THEN "Uppercase"
                          ELSE mode
         IN  IF next_mode = "Lowercase" /\ is_uppercase(next)
             THEN <<SubSeq(word, init, i)>> \o split_word(word, i + 1, i + 1, "Boundary")
             ELSE IF mode = "Uppercase" /\ is_uppercase(c) /\ is_lowercase(next)
             THEN <<SubSeq(word, init, i - 1)>> \o split_word(word, i + 1, i, "Boundary")
             ELSE split_word(word, i + 1, init, next_mode)

RECURSIVE words_of(_)
words_of(pieces) ==
    IF pieces = <<>> THEN <<>>
    ELSE split_word(Head(pieces), 1, 1, "Boundary") \o words_of(Tail(pieces))

RECURSIVE join_with(_, _)
join_with(words, sep) ==
    IF words = <<>> THEN <<>>
    ELSE IF Len(words) = 1 THEN words[1]
    ELSE words[1] \o sep \o join_with(Tail(words), sep)

\* heck::ToSnakeCase::to_snake_case
to_snake_case(s) ==
    to_lowercase(join_with(words_of(split_non_alphanumeric(s, <<>>)), <<"_">>))

-----------------------------------------------------------------------------
(* serde_json::Value.  s is the scalar payload (in its JSON text), xs the   *)
(* array elements or the object members [k, v] in iteration order           *)

JNull == [kind |-> "null", s |-> "", xs |-> <<>>]
JBool(b) == [kind |-> "bool", s |-> IF b THEN "true" ELSE "false", xs |-> <<>>]
JNum(n) == [kind |-> "number", s |-> ToString(n), xs |-> <<>>]
JStr(str) == [kind |-> "string", s |-> str, xs |-> <<>>]
JArr(elems) == [kind |-> "array", s |-> "", xs |-> elems]
JObj(members) == [kind |-> "object", s |-> "", xs |-> members]

\* Argument::new / ArgumentValue::Value
Val(json) == [av |-> "Value", json |-> json]
Argument(name, value) == [name |-> name, value |-> value]

-----------------------------------------------------------------------------
(* align_arguments_with_pymodd_structure_parameters                         *)

None == <<>>
Some(x) == <<x>>

\* the closure of position(): the argument's name matches the parameter
matches(parameter, arg) ==
    LET snake_name == to_snake_case(arg.name)
    IN  contains(parameter, snake_name) \/ contains(snake_name, parameter)

position_always_first(arg_list, parameter) == IF arg_list = <<>> THEN 0 ELSE 1

\* arguments.iter().position(..): index of the first match, 0 for None
position(arg_list, parameter) ==
    IF \E i \in 1..Len(arg_list) : matches(parameter, arg_list[i])
    THEN CHOOSE i \in 1..Len(arg_list) :
            /\ matches(parameter, arg_list[i])
            /\ \A j \in 1..(i - 1) : ~matches(parameter, arg_list[j])
    ELSE 0

remove_keeps(arg_list, p) == arg_list

\* what Vec::remove(p) leaves in the vector
remove(arg_list, p) ==
    SubSeq(arg_list, 1, p - 1) \o SubSeq(arg_list, p + 1, Len(arg_list))

\* the for_each over the parameters: one Option per parameter, matches
\* removed from the argument list as they are claimed
RECURSIVE scan_parameters(_, _, _)
scan_parameters(arg_list, parameters, acc) ==
    IF parameters = <<>> THEN [aligned_args |-> acc, arguments |-> arg_list]
    ELSE LET p == position(arg_list, Head(parameters))
         IN  IF p = 0
             THEN scan_parameters(arg_list, Tail(parameters), Append(acc, None))
             ELSE scan_parameters(remove(arg_list, p), Tail(parameters),
                                  Append(acc, Some(arg_list[p])))

null_argument_named_only == Argument(<<"n","u","l","l">>, Val(JStr("null")))

\* Argument::new("null", ArgumentValue::Value(Value::Null))
null_argument == Argument(<<"n","u","l","l">>, Val(JNull))

pop_front(arg_list) ==
    IF arg_list = <<>> THEN [arg |-> null_argument, rest |-> <<>>]
    ELSE [arg |-> Head(arg_list), rest |-> Tail(arg_list)]

\* arguments.pop().unwrap_or(null argument): the popped value and the vector left
pop_or_null(arg_list) ==
    IF arg_list = <<>> THEN [arg |-> null_argument, rest |-> <<>>]
    ELSE [arg |-> arg_list[Len(arg_list)],
          rest |-> SubSeq(arg_list, 1, Len(arg_list) - 1)]

\* unfilled slots that all take the last argument and leave the list as it is
fill_slots_without_popping(slots, arg_list) ==
    [j \in 1..Len(slots) |->
        IF slots[j] # None THEN slots[j][1] ELSE pop_or_null(arg_list).arg]

\* the map over aligned_args: a filled slot keeps its argument, an unfilled
\* one pops from what is left
RECURSIVE fill_slots(_, _)
fill_slots(slots, arg_list) ==
    IF slots = <<>> THEN <<>>
    ELSE IF Head(slots) # None
         THEN <<Head(slots)[1]>> \o fill_slots(Tail(slots), arg_list)
         ELSE LET popped == pop_or_null(arg_list)
              IN  <<popped.arg>> \o fill_slots(Tail(slots), popped.rest)

\* the whole function, with the two locals the scan leaves behind
align_with_locals(arg_list, parameters) ==
    LET scanned == scan_parameters(arg_list, parameters, <<>>)
    IN  [aligned_args |-> scanned.aligned_args,
         arguments |-> scanned.arguments,
         result |-> fill_slots(scanned.aligned_args, scanned.arguments)]

align_arguments_with_pymodd_structure_parameters(arg_list, parameters) ==
    align_with_locals(arg_list, parameters).result

-----------------------------------------------------------------------------
(* Alignment: the calls checked *)

n_item_a == <<"i","t","e","m","_","a">>
n_item_b == <<"i","t","e","m","_","b">>
n_operator == <<"o","p","e","r","a","t","o","r">>
n_item == <<"i","t","e","m">>
n_variableType == <<"v","a","r","i","a","b","l","e","T","y","p","e">>
n_variable == <<"v","a","r","i","a","b","l","e">>
n_value == <<"v","a","l","u","e">>
n_not_matching == <<"n","o","t","_","m","a","t","c","h","i","n","g">>
n_player == <<"p","l","a","y","e","r">>
n_empty == <<>>

\* Argument names and parameter names that occur together: the condition
\* call of tests::align_condition_arguments_with_pymodd, the
\* setPlayerVariable call of tests::align_action_arguments_with_pymodd, and
\* names that match several parameters (a prefix, the empty key)
AlignCases ==
    { [names |-> {n_operator, n_item_a, n_item_b},
       parameters |-> {n_item_a, n_operator, n_item_b}],
      [names |-> {n_variableType, n_value, n_not_matching},
       parameters |-> {n_player, n_variable, n_value}],
      [names |-> {n_item, n_empty, n_operator},
       parameters |-> {n_item_a, n_item_b, n_operator}] }

SeqsUpTo(S, n) == UNION { [1..k -> S] : k \in 0..n }

\* the i-th argument carries the literal i, so that an argument of the
\* result can be traced to its place in the input
ArgumentsNamed(names) == [i \in 1..Len(names) |-> Argument(names[i], Val(JNum(i)))]

InitAlign ==
    /\ pc = "call"
    /\ \E c \in AlignCases :
        /\ \E names \in SeqsUpTo(c.names, MaxArgs) : arguments = ArgumentsNamed(names)
        /\ pymodd_structure_parameters \in SeqsUpTo(c.parameters, MaxParams)
    /\ aligned_args = <<>>
    /\ unplaced = <<>>
    /\ aligned = <<>>
    /\ variables = <<>> /\ resolved = <<>>
    /\ object_data = <<>> /\ args = <<>>
    /\ categories_to_variables = <<>> /\ root_directory = <<>>
    /\ script_actions = <<>> /\ content = <<>>
    /\ scripts_data = <<>> /\ directory = <<>> /\ game_items = <<>>
    /\ elements = <<>> /\ curr_depth = 0
    /\ a_script = <<>> /\ game_data = <<>> /\ category_to_variables = <<>>
    /\ category_to_entity_types = <<>> /\ generated = <<>>

Align ==
    /\ pc = "call"
    /\ LET run == align_with_locals(arguments, pymodd_structure_parameters)
       IN  /\ aligned_args' = run.aligned_args
           /\ unplaced' = run.arguments
           /\ aligned' = run.result
    /\ pc' = "return"
    /\ UNCHANGED <<arguments, pymodd_structure_parameters, dedupVars, parseVars,
                   renderVars, directoryVars,
                   scriptVars, gameDataVars>>

NextAlign == Align

SpecAlign == InitAlign /\ [][NextAlign]_vars

-----------------------------------------------------------------------------
(* Alignment: properties *)

Range(f) == {f[i] : i \in DOMAIN f}

\* the parameters an argument matches, the arguments a parameter is matched by
ParametersMatching(arg) ==
    {j \in 1..Len(pymodd_structure_parameters) :
        matches(pymodd_structure_parameters[j], arg)}
ArgumentsMatching(parameter) ==
    {i \in 1..Len(arguments) : matches(parameter, arguments[i])}

MatchIsOneToOne ==
    /\ \A i \in 1..Len(arguments) : Cardinality(ParametersMatching(arguments[i])) = 1
    /\ \A j \in 1..Len(pymodd_structure_parameters) :
          Cardinality(ArgumentsMatching(pymodd_structure_parameters[j])) = 1

\* C1: when every argument matches exactly one parameter and every parameter
\* is matched by exactly one argument, slot j of the result holds the input
\* argument that matches parameter j, whatever the input order was.
C1_CanonicalOrder ==
    (pc = "return" /\ MatchIsOneToOne) =>
        /\ Len(aligned) = Len(pymodd_structure_parameters)
        /\ \A j \in 1..Len(pymodd_structure_parameters) :
              /\ aligned[j] \in Range(arguments)
              /\ matches(pymodd_structure_parameters[j], aligned[j])

\* C1 witness: [operator, item_a, item_b] against [item_a, operator, item_b]
\* came back as [item_a, operator, item_b].
C1_Witness ==
    /\ pc = "return"
    /\ arguments = ArgumentsNamed(<<n_operator, n_item_a, n_item_b>>)
    /\ pymodd_structure_parameters = <<n_item_a, n_operator, n_item_b>>
    /\ aligned = <<arguments[2], arguments[1], arguments[3]>>

\* the slots the scan filled, and the arguments they claimed
ClaimedSlots == {j \in 1..Len(aligned_args) : aligned_args[j] # None}

\* C2: a claimed argument has left the unplaced list, no argument is claimed
\* by two slots, and no input argument occupies two slots of the result.
C2_SlotExclusive ==
    pc = "return" =>
        /\ \A j \in ClaimedSlots : aligned_args[j][1] \notin Range(unplaced)
        /\ \A j, k \in ClaimedSlots : aligned_args[j] = aligned_args[k] => j = k
        /\ \A j, k \in 1..Len(aligned) :
              (aligned[j] = aligned[k] /\ aligned[j] \in Range(arguments)) => j = k

\* C2 witness: the one argument `item` matches both item_a and item_b; the
\* first slot took it and the second was left without it.
C2_Witness ==
    /\ pc = "return"
    /\ arguments = ArgumentsNamed(<<n_item>>)
    /\ pymodd_structure_parameters = <<n_item_a, n_item_b>>
    /\ Cardinality(ParametersMatching(arguments[1])) = 2
    /\ aligned[1] = arguments[1]
    /\ aligned[2] # arguments[1]

\* the slots the scan left unfilled, and the rank of one among them
UnfilledSlots == {j \in 1..Len(aligned_args) : aligned_args[j] = None}
UnfilledRank(j) == Cardinality({k \in UnfilledSlots : k <= j})

\* C3: a slot the scan filled keeps its argument; the k-th unfilled slot, in
\* declared order, takes the k-th argument from the end of the unplaced list.
C3_FillFromEnd ==
    pc = "return" =>
        /\ \A j \in ClaimedSlots : aligned[j] = aligned_args[j][1]
        /\ \A j \in UnfilledSlots :
              UnfilledRank(j) <= Len(unplaced) =>
                  aligned[j] = unplaced[Len(unplaced) - UnfilledRank(j) + 1]

\* C3 witness: [variableType, value, not_matching] against the
\* setPlayerVariable parameters put not_matching in the first, unmatched slot.
C3_Witness ==
    /\ pc = "return"
    /\ arguments = ArgumentsNamed(<<n_variableType, n_value, n_not_matching>>)
    /\ pymodd_structure_parameters = <<n_player, n_variable, n_value>>
    /\ UnfilledSlots = {1}
    /\ aligned = <<arguments[3], arguments[1], arguments[2]>>

\* C4: an unfilled slot for which no unplaced argument is left holds the
\* placeholder named "null" whose value is the null literal, and the result
\* always has one argument per parameter, for an empty argument list too.
C4_NullPlaceholder ==
    pc = "return" =>
        /\ Len(aligned) = Len(pymodd_structure_parameters)
        /\ \A j \in UnfilledSlots :
              UnfilledRank(j) > Len(unplaced) =>
                  /\ aligned[j].name = <<"n","u","l","l">>
                  /\ aligned[j].value = Val(JNull)

\* C4 witness: no arguments at all against three parameters gave three
\* null placeholders.
C4_Witness ==
    /\ pc = "return"
    /\ arguments = <<>>
    /\ Len(pymodd_structure_parameters) = 3
    /\ Len(aligned) = 3
    /\ \A j \in 1..3 : aligned[j].value = Val(JNull)

-----------------------------------------------------------------------------
(* resolve_duplicate_variable_enum_names *)

\* Variable::new
Variable(id, enum_name, data_type) ==
    [id |-> id, enum_name |-> enum_name, data_type |-> data_type]

\* format!("{}", n) for a u32
RECURSIVE decimal(_)
decimal(n) ==
    IF n < 10 THEN <<DigitChars[n + 1]>>
    ELSE decimal(n \div 10) \o <<DigitChars[(n % 10) + 1]>>

\* enum_names_count.get(name).unwrap_or(&0)
count_of(enum_names_count, enum_name) ==
    IF enum_name \in DOMAIN enum_names_count THEN enum_names_count[enum_name] ELSE 0

\* enum_names_count.insert(name, count)
insert_count(enum_names_count, enum_name, count) ==
    [k \in DOMAIN enum_names_count \cup {enum_name} |->
        IF k = enum_name THEN count ELSE enum_names_count[k]]

suffix_number_is_count(count) == count

\* the number pushed after the underscore: count - 1
suffix_number(count) == count - 1

\* the closure of the map: count the name, rename a repeat
resolve_one(var, count) ==
    IF count > 1
    THEN [var EXCEPT !.enum_name = @ \o <<"_">> \o decimal(suffix_number(count))]
    ELSE var

RECURSIVE resolve_from(_, _)
resolve_from(var_list, enum_names_count) ==
    IF var_list = <<>> THEN <<>>
    ELSE LET var == Head(var_list)
             count == count_of(enum_names_count, var.enum_name) + 1
         IN  <<resolve_one(var, count)>>
                 \o resolve_from(Tail(var_list),
                                 insert_count(enum_names_count, var.enum_name, count))

resolve_duplicate_variable_enum_names(var_list) == resolve_from(var_list, <<>>)

e_APPLE == <<"A","P","P","L","E">>
e_APPLE_1 == <<"A","P","P","L","E","_","1">>
e_APPLE_2 == <<"A","P","P","L","E","_","2">>
e_BANANA == <<"B","A","N","A","N","A">>

\* enum names as AsShoutySnakeCase produces them for the names "apple",
\* "apple 1", "apple 2" and "banana"
EnumNames == {e_APPLE, e_APPLE_1, e_APPLE_2, e_BANANA}

\* the variables of one category: ids are the keys of a JSON object, hence
\* distinct; the i-th variable has the id i
VariablesNamed(enum_names) ==
    [i \in 1..Len(enum_names) |-> Variable(ToString(i), enum_names[i], None)]

InitDedup ==
    /\ pc = "call"
    /\ \E enum_names \in SeqsUpTo(EnumNames, MaxVars) : variables = VariablesNamed(enum_names)
    /\ resolved = <<>>
    /\ arguments = <<>> /\ pymodd_structure_parameters = <<>>
    /\ aligned_args = <<>> /\ unplaced = <<>> /\ aligned = <<>>
    /\ object_data = <<>> /\ args = <<>>
    /\ categories_to_variables = <<>> /\ root_directory = <<>>
    /\ script_actions = <<>> /\ content = <<>>
    /\ scripts_data = <<>> /\ directory = <<>> /\ game_items = <<>>
    /\ elements = <<>> /\ curr_depth = 0
    /\ a_script = <<>> /\ game_data = <<>> /\ category_to_variables = <<>>
    /\ category_to_entity_types = <<>> /\ generated = <<>>

Dedup ==
    /\ pc = "call"
    /\ resolved' = resolve_duplicate_variable_enum_names(variables)
    /\ pc' = "return"
    /\ UNCHANGED <<variables, alignVars, parseVars, renderVars, directoryVars,
                   scriptVars, gameDataVars>>

NextDedup == Dedup

SpecDedup == InitDedup /\ [][NextDedup]_vars

\* how many of the first i variables carry the i-th variable's enum name
Occurrence(i) ==
    Cardinality({j \in 1..i : variables[j].enum_name = variables[i].enum_name})

\* C5: the first occurrence of an enum name is unchanged and the n-th
\* occurrence (n >= 2), counted in list order, gets `_{n-1}` appended; ids,
\* data types and the order of the variables are kept.
C5_SuffixByOccurrence ==
    pc = "return" =>
        /\ Len(resolved) = Len(variables)
        /\ \A i \in 1..Len(variables) :
              /\ resolved[i].id = variables[i].id
              /\ resolved[i].data_type = variables[i].data_type
              /\ resolved[i].enum_name =
                    IF Occurrence(i) = 1 THEN variables[i].enum_name
                    ELSE variables[i].enum_name \o <<"_">> \o decimal(Occurrence(i) - 1)

\* C5 witness: three variables named APPLE became APPLE, APPLE_1, APPLE_2.
C5_Witness ==
    /\ pc = "return"
    /\ variables = VariablesNamed(<<e_APPLE, e_APPLE, e_APPLE>>)
    /\ resolved = VariablesNamed(<<e_APPLE, e_APPLE_1, e_APPLE_2>>)

\* C6: after the deduplication pass the enum names of a category are
\* pairwise distinct.
C6_DistinctEnumNames ==
    pc = "return" =>
        \A i, j \in 1..Len(resolved) :
            resolved[i].enum_name = resolved[j].enum_name => i = j

-----------------------------------------------------------------------------
(* serde_json access *)

Member(k, v) == [k |-> k, v |-> v]

\* Value::as_object().unwrap_or(&Map::new())
as_object_or_empty(value) == IF value.kind = "object" THEN value.xs ELSE <<>>

\* Value::as_array().unwrap_or(&Vec::new())
as_array_or_empty(value) == IF value.kind = "array" THEN value.xs ELSE <<>>

\* Map::contains_key
contains_key(members, key) == \E i \in 1..Len(members) : members[i].k = key

\* Map::get(key).unwrap_or(&Value::Null)
get_or_null(members, key) ==
    IF contains_key(members, key)
    THEN members[CHOOSE i \in 1..Len(members) : members[i].k = key].v
    ELSE JNull

\* Vec::get(i).unwrap_or(&Value::Null), i counted from 0
at_or_null(elems, i) == IF i + 1 <= Len(elems) THEN elems[i + 1] ELSE JNull

\* Value::as_str().unwrap_or("null")
as_str_or_null(value) == IF value.kind = "string" THEN value.s ELSE "null"

-----------------------------------------------------------------------------
(* parse_arguments_of_object_data and Argument::parse *)

k_type == <<"t","y","p","e">>
k_function == <<"f","u","n","c","t","i","o","n">>
k_vars == <<"v","a","r","s">>
k_comment == <<"c","o","m","m","e","n","t">>
k_items == <<"i","t","e","m","s">>
k_force == <<"f","o","r","c","e">>
k_x == <<"x">>
k_y == <<"y">>
k_key == <<"k","e","y">>
k_variableName == <<"v","a","r","i","a","b","l","e","N","a","m","e">>
k_disabled == <<"d","i","s","a","b","l","e","d">>
k_runOnClient == <<"r","u","n","O","n","C","l","i","e","n","t">>

ARGS_TO_IGNORE_without_vars == {k_type, k_function, k_comment}

ARGS_TO_IGNORE == {k_type, k_function, k_vars, k_comment}

\* ArgumentValue::Function and ArgumentValue::Actions
Func(function) == [av |-> "Function", function |-> function]
Actions(actions) == [av |-> "Actions", actions |-> actions]

\* Function::new
Function(name, fargs) == [name |-> name, args |-> fargs]

\* FUNCTIONS_TO_PYMODD_STRUCTURE.get(name).unwrap_or(default).parameters:
\* calculate and condition take item_a, operator, item_b; a name the table
\* does not hold has the default structure, with no parameters
function_parameters(name) ==
    IF name \in {"calculate", "condition"} THEN <<n_item_a, n_operator, n_item_b>>
    ELSE <<>>

\* ACTIONS_TO_PYMODD_STRUCTURE.get(name).unwrap_or(default).parameters
action_parameters(name) ==
    IF name = "setPlayerVariable" THEN <<n_player, n_variable, n_value>>
    ELSE <<>>

\* Function::name_from_data
name_from_data(function_data) == as_str_or_null(get_or_null(function_data, k_function))

operator_argument_in_array_order(operator_argument_data) ==
    LET arguments_of_operator_argument == as_array_or_empty(operator_argument_data)
    IN  << Argument(n_item_a, Val(at_or_null(arguments_of_operator_argument, 0))),
           Argument(n_operator, Val(at_or_null(arguments_of_operator_argument, 1))),
           Argument(n_item_b, Val(at_or_null(arguments_of_operator_argument, 2))) >>

parse_arguments_of_operator_argument(operator_argument_data) ==
    LET arguments_of_operator_argument == as_array_or_empty(operator_argument_data)
    IN  << Argument(n_item_a, Val(at_or_null(arguments_of_operator_argument, 1))),
           Argument(n_operator,
                    Val(get_or_null(
                            as_object_or_empty(at_or_null(arguments_of_operator_argument, 0)),
                            n_operator))),
           Argument(n_item_b, Val(at_or_null(arguments_of_operator_argument, 2))) >>

parse_arguments_of_force_object_argument(force_argument_data) ==
    LET force_arguments_to_value == as_object_or_empty(force_argument_data)
    IN  << Argument(k_x, Val(get_or_null(force_arguments_to_value, k_x))),
           Argument(k_y, Val(get_or_null(force_arguments_to_value, k_y))) >>

variable_id_from_whole_variable(get_entity_variable_function_data) ==
    Val(get_or_null(get_entity_variable_function_data, n_variable))

\* ArgumentValue::variable_id_from_get_entity_variable_function
variable_id_from_get_entity_variable_function(get_entity_variable_function_data) ==
    Val(get_or_null(
            as_object_or_empty(
                IF contains_key(get_entity_variable_function_data, n_variable)
                THEN get_or_null(get_entity_variable_function_data, n_variable)
                ELSE JObj(<<>>)),
            k_key))

\* ArgumentValue::variable_id_from_get_variable_function
variable_id_from_get_variable_function(get_variable_function_data) ==
    Val(get_or_null(get_variable_function_data, k_variableName))

force_always_single(arg_data) == TRUE

\* the `force` arm: a value without an "x" key is one argument
force_is_single(arg_data) == ~contains_key(as_object_or_empty(arg_data), k_x)

RECURSIVE parse_arguments_of_object_data(_)
RECURSIVE argument_parse(_, _)
RECURSIVE function_parse(_)
RECURSIVE parse_actions(_)

\* the arguments one key contributes (the match on arg_name)
arguments_of_key(arg_name, arg_data) ==
    IF arg_name = k_items THEN parse_arguments_of_operator_argument(arg_data)
    ELSE IF arg_name = k_force
         THEN IF force_is_single(arg_data)
              THEN <<argument_parse(k_force, arg_data)>>
              ELSE parse_arguments_of_force_object_argument(arg_data)
    ELSE <<argument_parse(arg_name, arg_data)>>

parse_arguments_of_object_data(members) ==
    IF members = <<>> THEN <<>>
    ELSE (IF Head(members).k \in ARGS_TO_IGNORE THEN <<>>
          ELSE arguments_of_key(Head(members).k, Head(members).v))
         \o parse_arguments_of_object_data(Tail(members))

\* Argument::parse
argument_parse(argument_name, argument_data) ==
    Argument(argument_name,
        IF argument_data.kind = "object"
        THEN LET function_data == argument_data.xs
                 fname == name_from_data(function_data)
             IN  IF fname \in {"getPlayerVariable", "getEntityVariable"}
                 THEN variable_id_from_get_entity_variable_function(function_data)
                 ELSE IF fname = "getVariable"
                 THEN variable_id_from_get_variable_function(function_data)
                 ELSE Func(function_parse(function_data))
        ELSE IF argument_data.kind = "array"
        THEN Actions(parse_actions(argument_data.xs))
        ELSE Val(argument_data))

\* Function::parse
function_parse(function_data) ==
    LET name == name_from_data(function_data)
    IN  Function(name,
                 align_arguments_with_pymodd_structure_parameters(
                     parse_arguments_of_object_data(function_data),
                     function_parameters(name)))

\* Action {name, args, comment, disabled, ran_on_client} of one action node
action_of(action_data) ==
    LET fields == as_object_or_empty(action_data)
        name == as_str_or_null(get_or_null(fields, k_type))
    IN  [name |-> name,
         args |-> align_arguments_with_pymodd_structure_parameters(
                      parse_arguments_of_object_data(fields), action_parameters(name)),
         comment |-> get_or_null(fields, k_comment),
         disabled |-> get_or_null(fields, k_disabled) = JBool(TRUE),
         ran_on_client |-> get_or_null(fields, k_runOnClient) = JBool(TRUE)]

\* actions::parse_actions
parse_actions(actions_data) ==
    [i \in 1..Len(actions_data) |-> action_of(actions_data[i])]

-----------------------------------------------------------------------------
(* Parsing: the objects checked *)

\* [{"operator": "+"}, 1, 5]
v_calculate_items == JArr(<<JObj(<<Member(n_operator, JStr("+"))>>), JNum(1), JNum(5)>>)
\* [{"type": "sendChatMessage"}]: an action list; as an operator triple it
\* has no operator field and no position 1 or 2
v_actions == JArr(<<JObj(<<Member(k_type, JStr("sendChatMessage"))>>)>>)
\* {"function": "getPlayerVariable", "variable": {"key": "OW31JD2"}}
v_getPlayerVariable ==
    JObj(<<Member(k_function, JStr("getPlayerVariable")),
           Member(n_variable, JObj(<<Member(k_key, JStr("OW31JD2"))>>))>>)
\* {"function": "getEntityVariable", "variable": {}}
v_getEntityVariable_no_key ==
    JObj(<<Member(k_function, JStr("getEntityVariable")), Member(n_variable, JObj(<<>>))>>)
\* {"function": "getVariable", "variableName": "AI"}
v_getVariable ==
    JObj(<<Member(k_function, JStr("getVariable")), Member(k_variableName, JStr("AI"))>>)
\* {"function": "getVariable"}
v_getVariable_no_name == JObj(<<Member(k_function, JStr("getVariable"))>>)
\* {"x": 1, "y": 1}
v_force_object == JObj(<<Member(k_x, JNum(1)), Member(k_y, JNum(1))>>)
\* {"function": "calculate", "items": [{"operator": "+"}, 1, 5]}
v_calculate ==
    JObj(<<Member(k_function, JStr("calculate")), Member(k_items, v_calculate_items)>>)
\* {}
v_empty_object == JObj(<<>>)
\* {"x": 1}
v_force_x_only == JObj(<<Member(k_x, JNum(1))>>)
\* {"function": "getPlayerVariable"}
v_getPlayerVariable_no_variable == JObj(<<Member(k_function, JStr("getPlayerVariable"))>>)
\* [{"operator": "+"}]
v_operator_only == JArr(<<JObj(<<Member(n_operator, JStr("+"))>>)>>)
\* {"function": "getOwner", "value": "AI"}: a function the table does not hold
v_unknown_function ==
    JObj(<<Member(k_function, JStr("getOwner")), Member(n_value, JStr("AI"))>>)

PoolValues ==
    { JNull, JBool(TRUE), JNum(5), JStr("AI"),
      v_calculate_items, v_actions,
      v_getPlayerVariable, v_getEntityVariable_no_key, v_getVariable, v_getVariable_no_name,
      v_force_object, v_calculate, v_empty_object,
      v_force_x_only, v_getPlayerVariable_no_variable, v_operator_only, v_unknown_function }

\* the keys an object is drawn from, in the order the map iterates them
ObjectKeys == <<k_comment, k_force, k_function, k_items, k_type, n_value, n_variable, k_vars>>

RECURSIVE Ascending(_)
Ascending(S) ==
    IF S = {} THEN <<>>
    ELSE LET m == CHOOSE x \in S : \A y \in S : x <= y
         IN  <<m>> \o Ascending(S \ {m})

InitParse ==
    /\ pc = "call"
    /\ \E K \in SUBSET (1..Len(ObjectKeys)) :
        /\ Cardinality(K) <= MaxKeys
        /\ \E value_of \in [K -> PoolValues] :
              object_data = [i \in 1..Cardinality(K) |->
                                Member(ObjectKeys[Ascending(K)[i]], value_of[Ascending(K)[i]])]
    /\ args = <<>>
    /\ arguments = <<>> /\ pymodd_structure_parameters = <<>>
    /\ aligned_args = <<>> /\ unplaced = <<>> /\ aligned = <<>>
    /\ variables = <<>> /\ resolved = <<>>
    /\ categories_to_variables = <<>> /\ root_directory = <<>>
    /\ script_actions = <<>> /\ content = <<>>
    /\ scripts_data = <<>> /\ directory = <<>> /\ game_items = <<>>
    /\ elements = <<>> /\ curr_depth = 0
    /\ a_script = <<>> /\ game_data = <<>> /\ category_to_variables = <<>>
    /\ category_to_entity_types = <<>> /\ generated = <<>>

Parse ==
    /\ pc = "call"
    /\ args' = parse_arguments_of_object_data(object_data)
    /\ pc' = "return"
    /\ UNCHANGED <<object_data, alignVars, dedupVars, renderVars, directoryVars,
                   scriptVars, gameDataVars>>

NextParse == Parse

SpecParse == InitParse /\ [][NextParse]_vars

-----------------------------------------------------------------------------
(* Parsing: properties *)

IsStructuralKey(key) ==
    key \in {<<"t","y","p","e">>, <<"f","u","n","c","t","i","o","n">>,
             <<"v","a","r","s">>, <<"c","o","m","m","e","n","t">>}
IsItemsKey(key) == key = <<"i","t","e","m","s">>
IsForceKey(key) == key = <<"f","o","r","c","e">>
IsOrdinaryKey(key) == ~IsStructuralKey(key) /\ ~IsItemsKey(key) /\ ~IsForceKey(key)

HasField(value, key) ==
    value.kind = "object" /\ \E i \in 1..Len(value.xs) : value.xs[i].k = key
Field(value, key) ==
    IF HasField(value, key)
    THEN value.xs[CHOOSE i \in 1..Len(value.xs) : value.xs[i].k = key].v
    ELSE JNull
Element(value, i) ==
    IF value.kind = "array" /\ i + 1 <= Len(value.xs) THEN value.xs[i + 1] ELSE JNull
IsScalar(value) == value.kind \in {"null", "bool", "number", "string"}
FunctionTag(value) ==
    IF Field(value, k_function).kind = "string" THEN Field(value, k_function).s ELSE "null"
IsEntityVariableGetter(value) ==
    value.kind = "object" /\ FunctionTag(value) \in {"getPlayerVariable", "getEntityVariable"}
IsVariableGetter(value) == value.kind = "object" /\ FunctionTag(value) = "getVariable"

\* the number of arguments the claims give the i-th key of object_data, and
\* the place of its arguments in args
ArgumentCount(i) ==
    LET m == object_data[i]
    IN  IF IsStructuralKey(m.k) THEN 0
        ELSE IF IsItemsKey(m.k) THEN 3
        ELSE IF IsForceKey(m.k) /\ HasField(m.v, k_x) THEN 2
        ELSE 1
RECURSIVE ArgumentsBefore(_)
ArgumentsBefore(i) == IF i <= 1 THEN 0 ELSE ArgumentsBefore(i - 1) + ArgumentCount(i - 1)
ArgumentsOfKey(i) ==
    IF ArgumentsBefore(i) + ArgumentCount(i) <= Len(args)
    THEN SubSeq(args, ArgumentsBefore(i) + 1, ArgumentsBefore(i) + ArgumentCount(i))
    ELSE <<>>

\* C7: an `items` key yields exactly item_a, operator, item_b, in that order,
\* holding array position 1, the operator field of position 0 and position 2,
\* each the null literal when the position or the field is missing.
C7_OperatorTriple ==
    pc = "return" =>
        \A i \in 1..Len(object_data) :
            IsItemsKey(object_data[i].k) =>
                ArgumentsOfKey(i) =
                    << Argument(n_item_a, Val(Element(object_data[i].v, 1))),
                       Argument(n_operator,
                                Val(Field(Element(object_data[i].v, 0), n_operator))),
                       Argument(n_item_b, Val(Element(object_data[i].v, 2))) >>

\* C7 witness: {"items": [{"operator": "+"}, 1, 5]} gave item_a = 1,
\* operator = "+", item_b = 5.
C7_Witness ==
    /\ pc = "return"
    /\ object_data = <<Member(k_items, v_calculate_items)>>
    /\ args = << Argument(n_item_a, Val(JNum(1))),
                 Argument(n_operator, Val(JStr("+"))),
                 Argument(n_item_b, Val(JNum(5))) >>

\* C8: a value tagged getPlayerVariable or getEntityVariable becomes the
\* Literal of variable.key, one tagged getVariable the Literal of
\* variableName, the null literal when the key is missing; never a Function.
C8_VariableGetterCollapses ==
    pc = "return" =>
        \A i \in 1..Len(object_data) :
            LET m == object_data[i]
            IN  (IsOrdinaryKey(m.k) \/ (IsForceKey(m.k) /\ ~HasField(m.v, k_x))) =>
                  /\ IsEntityVariableGetter(m.v) =>
                        ArgumentsOfKey(i) =
                            <<Argument(m.k, Val(Field(Field(m.v, n_variable), k_key)))>>
                  /\ IsVariableGetter(m.v) =>
                        ArgumentsOfKey(i) =
                            <<Argument(m.k, Val(Field(m.v, k_variableName)))>>

\* C8 witness: the getPlayerVariable object of the test became the literal
\* "OW31JD2".
C8_Witness ==
    /\ pc = "return"
    /\ object_data = <<Member(n_variable, v_getPlayerVariable)>>
    /\ args = <<Argument(n_variable, Val(JStr("OW31JD2")))>>

\* C9: a `force` key with a scalar value yields the one argument `force`
\* holding the scalar; with an object that has an x field it yields exactly
\* x and y, in that order, holding the object's x and y fields.
C9_ForceShapes ==
    pc = "return" =>
        \A i \in 1..Len(object_data) :
            LET m == object_data[i]
            IN  IsForceKey(m.k) =>
                  /\ IsScalar(m.v) => ArgumentsOfKey(i) = <<Argument(k_force, Val(m.v))>>
                  /\ HasField(m.v, k_x) =>
                        ArgumentsOfKey(i) = << Argument(k_x, Val(Field(m.v, k_x))),
                                               Argument(k_y, Val(Field(m.v, k_y))) >>

\* C9 witness: {"force": {"x": 1, "y": 1}} gave x = 1, y = 1.
C9_Witness ==
    /\ pc = "return"
    /\ object_data = <<Member(k_force, v_force_object)>>
    /\ args = <<Argument(k_x, Val(JNum(1))), Argument(k_y, Val(JNum(1)))>>

\* C10: structural keys yield no argument, so args holds just the arguments
\* of the other keys; an ordinary key yields one argument of its own name,
\* an Actions block for an array, a Function (named by the function tag) for
\* an object that is no variable getter, a Literal for a variable getter and
\* the Literal of the unchanged value for a scalar.
C10_OneArgumentPerKey ==
    pc = "return" =>
        /\ Len(args) = ArgumentsBefore(Len(object_data) + 1)
        /\ \A i \in 1..Len(object_data) :
              LET m == object_data[i]
                  a == ArgumentsOfKey(i)
              IN  IsOrdinaryKey(m.k) =>
                    /\ Len(a) = 1
                    /\ a[1].name = m.k
                    /\ m.v.kind = "array" => a[1].value.av = "Actions"
                    /\ (m.v.kind = "object"
                            /\ ~IsEntityVariableGetter(m.v) /\ ~IsVariableGetter(m.v)) =>
                          /\ a[1].value.av = "Function"
                          /\ a[1].value.function.name = FunctionTag(m.v)
                    /\ (IsEntityVariableGetter(m.v) \/ IsVariableGetter(m.v)) =>
                          a[1].value.av = "Value"
                    /\ IsScalar(m.v) => a[1].value = Val(m.v)

\* C10 witness: {"value": {"function": "calculate", ..}, "vars": 5} gave the
\* single argument `value`, a Function; {"vars": 5} contributed nothing.
C10_Witness ==
    /\ pc = "return"
    /\ object_data = <<Member(n_value, v_calculate), Member(k_vars, JNum(5))>>
    /\ Len(args) = 1
    /\ args[1].name = n_value
    /\ args[1].value.av = "Function"
    /\ args[1].value.function.name = "calculate"

-----------------------------------------------------------------------------
(* Rendered text.  A String the renderer builds is a sequence of pieces     *)
(* whose concatenation is the text.  Every character the code looks at      *)
(* (newline, tab, parenthesis, comma, space, colon, quote) is a piece of    *)
(* its own; a name, a number or the payload of a string literal is a piece, *)
(* or a run of one-character pieces, that holds none of them.               *)

NL == "\n"
TAB == "\t"

\* what a panicking call (unwrap of None, expect on an exhausted iterator)
\* leaves in place of its result: a text that holds it was never produced
PANIC == "panicked"

\* a &str as text: the empty string has no piece
str(string) == IF string = "" THEN <<>> ELSE <<string>>

\* str::ends_with / str::starts_with
ends_with(text, suffix) ==
    /\ Len(text) >= Len(suffix)
    /\ SubSeq(text, Len(text) - Len(suffix) + 1, Len(text)) = suffix
starts_with(text, prefix) ==
    /\ Len(text) >= Len(prefix)
    /\ SubSeq(text, 1, Len(prefix)) = prefix

\* str::strip_suffix / str::strip_prefix
strip_suffix(text, suffix) ==
    IF ends_with(text, suffix) THEN Some(SubSeq(text, 1, Len(text) - Len(suffix))) ELSE None
strip_prefix(text, prefix) ==
    IF starts_with(text, prefix) THEN Some(SubSeq(text, Len(prefix) + 1, Len(text))) ELSE None

\* Option::unwrap / Option::expect on an Option<String>
unwrap(option) == IF option = None THEN <<PANIC>> ELSE option[1]

\* str::lines: the text between newlines; a last line without a newline
\* counts, an empty rest after the last newline does not
lines(text) ==
    LET newlines == {i \in 1..Len(text) : text[i] = NL}
        count == Cardinality(newlines)
        newline(k) ==
            IF k = 0 THEN 0
            ELSE CHOOSE p \in newlines : Cardinality({q \in newlines : q <= p}) = k
        rest == SubSeq(text, newline(count) + 1, Len(text))
    IN  [k \in 1..count |-> SubSeq(text, newline(k - 1) + 1, newline(k) - 1)]
            \o (IF rest = <<>> THEN <<>> ELSE <<rest>>)

\* collect::<String>() of an iterator of Strings
RECURSIVE concat(_)
concat(texts) == IF texts = <<>> THEN <<>> ELSE Head(texts) \o concat(Tail(texts))

\* utils::surround_string_with_quotes, for a string that holds no quote
surround_string_with_quotes(string) == <<"'">> \o str(string) \o <<"'">>

-----------------------------------------------------------------------------
(* into_operator *)

\* the tokens that pass through unchanged
OPERATORS == {"==", "!=", "<=", "<", ">", ">=", "+", "-", "/", "*", "**"}

\* the characters of a string that is read letter by letter: the operator
\* tokens that hold letters, the names and data types of variables and
\* entity types, the categories
chars(string) ==
    CASE string = "AND" -> <<"A","N","D">>
      [] string = "and" -> <<"a","n","d">>
      [] string = "And" -> <<"A","n","d">>
      [] string = "OR"  -> <<"O","R">>
      [] string = "or"  -> <<"o","r">>
      [] string = "oR"  -> <<"o","R">>
      [] string = "XOR" -> <<"X","O","R">>
      [] string = "andor" -> <<"a","n","d","o","r">>
      [] string = "apple" -> <<"a","p","p","l","e">>
      [] string = "banana" -> <<"b","a","n","a","n","a">>
      [] string = "Undefined" -> <<"U","n","d","e","f","i","n","e","d">>
      [] string = "region" -> <<"r","e","g","i","o","n">>
      [] string = "regions" -> <<"r","e","g","i","o","n","s">>
      [] string = "itemTypeGroups" -> <<"i","t","e","m","T","y","p","e","G","r","o","u","p","s">>
      [] string = "unitTypeGroup" -> <<"u","n","i","t","T","y","p","e","G","r","o","u","p">>
      [] string = "unitTypeGroups" -> <<"u","n","i","t","T","y","p","e","G","r","o","u","p","s">>
      [] string = "shops" -> <<"s","h","o","p","s">>
      [] string = "unitTypes" -> <<"u","n","i","t","T","y","p","e","s">>
      [] string = "itemTypes" -> <<"i","t","e","m","T","y","p","e","s">>
      [] OTHER -> str(string)

\* a mapping that knows no word operators
into_operator_symbols_only(string) ==
    IF string \in OPERATORS THEN Some(string) ELSE None

into_operator(string) ==
    IF string \in OPERATORS THEN Some(string)
    ELSE LET lowercase == to_lowercase(chars(string))
         IN  IF lowercase = <<"a","n","d">> THEN Some("&")
             ELSE IF lowercase = <<"o","r">> THEN Some("|")
             ELSE None

-----------------------------------------------------------------------------
(* The variable resolver *)

UpperOfLower ==
    [c \in LowerSet |-> UpperChars[CHOOSE i \in 1..Len(LowerChars) : LowerChars[i] = c]]
to_uppercase_char(c) == IF c \in LowerSet THEN UpperOfLower[c] ELSE c

\* heck's capitalize: the first character in upper case, the rest in lower
capitalize(word) ==
    IF word = <<>> THEN <<>>
    ELSE <<to_uppercase_char(Head(word))>> \o to_lowercase(Tail(word))

\* heck::ToPascalCase::to_pascal_case
to_pascal_case(s) ==
    LET words == words_of(split_non_alphanumeric(s, <<>>))
    IN  concat([i \in 1..Len(words) |-> capitalize(words[i])])

c_shops == <<"s","h","o","p","s">>
c_music == <<"m","u","s","i","c">>
c_unitTypes == <<"u","n","i","t","T","y","p","e","s">>
c_entityTypeVariables ==
    <<"e","n","t","i","t","y","T","y","p","e","V","a","r","i","a","b","l","e","s">>
c_EntityVariables ==
    <<"E","n","t","i","t","y","V","a","r","i","a","b","l","e","s">>
c_playerTypeVariables ==
    <<"p","l","a","y","e","r","T","y","p","e","V","a","r","i","a","b","l","e","s">>
c_PlayerVariables ==
    <<"P","l","a","y","e","r","V","a","r","i","a","b","l","e","s">>

pymodd_class_name_of_category(category) ==
    LET class_name == to_pascal_case(
            IF category = c_entityTypeVariables THEN c_EntityVariables
            ELSE IF category = c_playerTypeVariables THEN c_PlayerVariables
            ELSE category)
    IN  IF ends_with(class_name, <<"s">>) THEN class_name ELSE Append(class_name, "s")

\* one entry of the HashMap<&'static str, Vec<Variable>>
Category(category, category_variables) ==
    [category |-> category, variables |-> category_variables]

\* variables.iter().find(|variable| variable.id == variable_id)
find_variable(category_variables, variable_id) ==
    IF \E i \in 1..Len(category_variables) : category_variables[i].id = variable_id
    THEN Some(category_variables[
             CHOOSE i \in 1..Len(category_variables) :
                 /\ category_variables[i].id = variable_id
                 /\ \A j \in 1..(i - 1) : category_variables[j].id /= variable_id])
    ELSE None

\* a lookup that only searches the category the map yields first
find_in_first_category_only(categories, variable_id) ==
    IF categories /= <<>> /\ find_variable(categories[1].variables, variable_id) /= None
    THEN Some(<<find_variable(categories[1].variables, variable_id)[1],
                categories[1].category>>)
    ELSE None

\* the categories are visited in the iteration order of the map; the first
\* category that holds the id answers
RECURSIVE find_variable_in_a_category_with_id(_, _)
find_variable_in_a_category_with_id(categories, variable_id) ==
    IF categories = <<>> THEN None
    ELSE LET found == find_variable(Head(categories).variables, variable_id)
         IN  IF found /= None THEN Some(<<found[1], Head(categories).category>>)
             ELSE find_variable_in_a_category_with_id(Tail(categories), variable_id)

-----------------------------------------------------------------------------
(* What the renderer reads: actions, the flattened argument values, the     *)
(* directory                                                                *)

\* Action: comment is the JSON value of the "comment" field
Action(name, action_args, comment, disabled, ran_on_client) ==
    [name |-> name, args |-> action_args, comment |-> comment,
     disabled |-> disabled, ran_on_client |-> ran_on_client]

\* action.comment as the Option<String> the renderer sees
comment_of(action) ==
    IF action.comment.kind = "string" THEN Some(action.comment.s) ELSE None

\* ACTIONS_TO_PYMODD_STRUCTURE.get(name).name; a name the table does not
\* hold renders as it is
action_pymodd_class_name(action) ==
    CASE action.name = "sendChatMessage" -> "send_chat_message_to_everyone"
      [] action.name = "return" -> "return_loop"
      [] action.name = "runScript" -> "run_script"
      [] action.name = "startUsingItem" -> "use_item_continuously_until_stopped"
      [] OTHER -> action.name

\* PymoddStructure::default().name
default_structure_name == ""

\* Function::pymodd_class_name
function_pymodd_class_name(function) ==
    CASE function.name = "getOwner" -> "OwnerOfEntity"
      [] function.name = "getTriggeringPlayer" -> "LastTriggeringPlayer"
      [] function.name = "getPlayerId" -> "IdOfPlayer"
      [] function.name = "getRandomNumberBetween" -> "RandomNumberBetween"
      [] OTHER -> default_structure_name

\* the strings the table of constants turns into enum members
pymodd_enum_of_constant(string) ==
    IF string = "top" THEN Some("UiTarget.TOP") ELSE None

n_scriptName == <<"s","c","r","i","p","t","N","a","m","e">>
n_text_a == <<"t","e","x","t","A">>
n_text_b == <<"t","e","x","t","B">>
n_condition == <<"c","o","n","d","i","t","i","o","n">>
n_then == <<"t","h","e","n">>
n_else == <<"e","l","s","e">>
n_actions == <<"a","c","t","i","o","n","s">>
n_count == <<"c","o","u","n","t">>
n_start == <<"s","t","a","r","t">>
n_stop == <<"s","t","o","p">>
n_variableName == <<"v","a","r","i","a","b","l","e","N","a","m","e">>
n_message == <<"m","e","s","s","a","g","e">>
n_entity == <<"e","n","t","i","t","y">>

\* Operation: the operands and the operator of a condition, a calculation or
\* a concatenation; a concatenation joins its two texts with +
Operation(function) ==
    LET arg(i) == IF i <= Len(function.args) THEN function.args[i]
                  ELSE Argument(n_empty, Val(JNull))
    IN  IF function.name = "concat"
        THEN [item_a |-> arg(1), operator |-> Argument(n_operator, Val(JStr("+"))),
              item_b |-> arg(2)]
        ELSE [item_a |-> arg(1), operator |-> arg(2), item_b |-> arg(3)]

\* ArgumentValueIterItem::FunctionEnd
FunctionEnd == [item |-> "FunctionEnd"]

\* ArgumentValueIterItem::from_argument
from_argument(argument) ==
    LET value == argument.value
    IN  CASE value.av = "Actions" -> [item |-> "Actions", actions |-> value.actions]
          [] value.av = "Function" ->
                (CASE value.function.name = "condition" ->
                        [item |-> "Condition", operation |-> Operation(value.function)]
                   [] value.function.name = "concat" ->
                        [item |-> "Concatenation", operation |-> Operation(value.function)]
                   [] value.function.name = "calculate" ->
                        [item |-> "Calculation", operation |-> Operation(value.function)]
                   [] OTHER -> [item |-> "StartOfFunction", function |-> value.function])
          [] OTHER ->
                IF value.json.kind = "string" /\ pymodd_enum_of_constant(value.json.s) /= None
                THEN [item |-> "Constant", constant |-> pymodd_enum_of_constant(value.json.s)[1]]
                ELSE IF value.json.kind = "string" /\ argument.name = n_scriptName
                THEN [item |-> "ScriptKey", key |-> value.json.s]
                ELSE [item |-> "Value", value |-> value.json]

from_arguments(argument_list) ==
    [i \in 1..Len(argument_list) |-> from_argument(argument_list[i])]

\* ArgumentValuesIterator: the head of the stack is yielded next; a function
\* is followed by its own arguments and then by FunctionEnd
RECURSIVE iterate(_)
iterate(stack) ==
    IF stack = <<>> THEN <<>>
    ELSE LET node == Head(stack)
         IN  <<node>> \o iterate(
                 IF node.item = "StartOfFunction"
                 THEN from_arguments(node.function.args) \o <<FunctionEnd>> \o Tail(stack)
                 ELSE Tail(stack))

\* Action::iter_flattened_argument_values
iter_flattened_argument_values(action) == iterate(from_arguments(action.args))

\* ArgumentValuesIterator::from_argument_iter_value
from_argument_iter_value(item) == iterate(<<item>>)

\* Directory and Script
Directory(name, key, children) ==
    [kind |-> "Directory", name |-> name, key |-> key, children |-> children]
Script(name, key) == [kind |-> "Script", name |-> name, key |-> key]

\* Directory::iter_flattened: a folder, its subtree, its end; the root
\* itself is not yielded
RECURSIVE iter_flattened(_)
iter_flattened(children) ==
    IF children = <<>> THEN <<>>
    ELSE LET child == Head(children)
         IN  (IF child.kind = "Directory"
              THEN <<[item |-> "StartOfDirectory", directory |-> child]>>
                       \o iter_flattened(child.children)
                       \o <<[item |-> "DirectoryEnd"]>>
              ELSE <<[item |-> "Script", script |-> child]>>)
             \o iter_flattened(Tail(children))

\* the key of a yielded item; the end of a folder has none
item_has_key(game_item, key) ==
    \/ game_item.item = "StartOfDirectory" /\ game_item.directory.key = key
    \/ game_item.item = "Script" /\ game_item.script.key = key

\* Directory::find_item_with_key: the first item of the flattened directory
\* that has the key
find_item_with_key(root, key) ==
    LET flattened == iter_flattened(root.children)
        hits == {i \in 1..Len(flattened) : item_has_key(flattened[i], key)}
    IN  IF hits = {} THEN None
        ELSE Some(flattened[CHOOSE i \in hits : \A j \in hits : i <= j])

\* is_valid_class_name: not empty and not starting with a digit
is_valid_class_name(class_name) ==
    class_name /= <<>> /\ Head(class_name) \notin DigitSet

\* Script::pymodd_class_name: the display name in Pascal case, prefixed when
\* that is no class name
script_pymodd_class_name(script) ==
    LET class_name == to_pascal_case(script.name)
    IN  IF is_valid_class_name(class_name) THEN class_name ELSE <<"q">> \o class_name

-----------------------------------------------------------------------------
(* ScriptsContentBuilder: the renderer.  self.categories_to_variables and   *)
(* self.root_directory are the variables of the same names.                 *)

RECURSIVE build_actions_content(_)
RECURSIVE build_action_content(_)
RECURSIVE fold_arguments(_, _)
RECURSIVE build_argument_content(_)
RECURSIVE build_operation_content(_)
RECURSIVE build_operation_item_content(_)

\* "\tpass\n", the body of an empty block
pass_line == <<TAB, "pass", NL>>

\* a line of a block put back without the tab
indent_without_tab(line) == line \o <<NL>>

\* format!("\t{line}\n")
indent(line) == <<TAB>> \o line \o <<NL>>

\* an else-block that always counts as empty
else_is_always_empty(else_actions) == TRUE

\* else_actions != "\n\tpass\n", negated: the else-block rendered as the
\* empty block
else_is_empty(else_actions) == else_actions = <<NL>> \o pass_line

\* the qualifiers with disabled ahead of the comment
optional_arguments_disabled_first(action) ==
    (IF action.disabled THEN <<(<<"disabled", "=", "True">>)>> ELSE <<>>)
    \o (IF comment_of(action) /= None /\ comment_of(action)[1] /= ""
        THEN <<(<<"comment", "=">> \o surround_string_with_quotes(comment_of(action)[1]))>>
        ELSE <<>>)
    \o (IF action.ran_on_client THEN <<(<<"run_on_client", "=", "True">>)>> ELSE <<>>)

build_optional_arguments_contents(action) ==
    (IF comment_of(action) /= None /\ comment_of(action)[1] /= ""
     THEN <<(<<"comment", "=">> \o surround_string_with_quotes(comment_of(action)[1]))>>
     ELSE <<>>)
    \o (IF action.disabled THEN <<(<<"disabled", "=", "True">>)>> ELSE <<>>)
    \o (IF action.ran_on_client THEN <<(<<"run_on_client", "=", "True">>)>> ELSE <<>>)

\* every qualifier led by a separator
separated_always(action, i, arg) == <<",", " ">> \o arg

\* the closure of the default form: the i-th qualifier (from 0), led by
\* ", " unless it is the first one of an action without arguments
separated(action, i, arg) ==
    IF action.args = <<>> /\ i = 0 THEN arg ELSE <<",", " ">> \o arg

\* format!("for {variable} in range({start}, {stop}):{actions}")
for_content(variable, start, stop, block) ==
    <<"for", " ">> \o variable \o <<" ", "in", " ", "range", "(">> \o start
        \o <<",", " ">> \o stop \o <<")", ":">> \o block

\* format!("for _ in repeat({count}):{actions}")
repeat_content(count, block) ==
    <<"for", " ", "_", " ", "in", " ", "repeat", "(">> \o count \o <<")", ":">> \o block

\* an operand that is never put in parentheses
operation_item_never_wrapped(operation_item) ==
    IF operation_item.item = "StartOfFunction"
    THEN unwrap(strip_prefix(
             fold_arguments(<<"(">>, from_argument_iter_value(operation_item)), <<"(">>))
    ELSE build_argument_content(operation_item)

\* args_iter.next().expect(err_msg), handed to build_argument_content: the
\* content of the i-th flattened value, or the panic when there is none
expect_next(values, i) ==
    IF i <= Len(values) THEN build_argument_content(values[i]) ELSE <<PANIC>>

build_actions_content(action_list) ==
    concat([i \in 1..Len(action_list) |-> build_action_content(action_list[i])])

\* build_arguments_content
build_arguments_content(args_iter) ==
    unwrap(strip_prefix(fold_arguments(<<"(">>, args_iter), <<"(">>))

\* a disabled condition, for or repeat action that renders as no text
build_action_content_skipping_disabled(action) ==
    LET values == iter_flattened_argument_values(action)
        optional == build_optional_arguments_contents(action)
    IN  CASE action.name \in {"condition", "for", "repeat"} /\ action.disabled -> <<>>
          [] action.name = "condition" ->
                LET condition == expect_next(values, 1)
                    then_actions == expect_next(values, 2)
                    else_actions == expect_next(values, 3)
                IN  <<"if", " ">> \o condition \o <<":">>
                        \o unwrap(strip_suffix(then_actions, <<NL>>))
                        \o (IF ~else_is_empty(else_actions)
                            THEN <<NL, "else", ":">> \o else_actions
                            ELSE <<NL>>)
          [] action.name = "for" ->
                for_content(expect_next(values, 1), expect_next(values, 2),
                            expect_next(values, 3), expect_next(values, 4))
          [] action.name = "repeat" ->
                repeat_content(expect_next(values, 1), expect_next(values, 2))
          [] action.name = "comment" ->
                str(action_pymodd_class_name(action)) \o <<"(">>
                    \o surround_string_with_quotes(
                           IF comment_of(action) /= None THEN comment_of(action)[1] ELSE "None")
                    \o concat([i \in 1..(Len(optional) - 1) |-> <<",", " ">> \o optional[i + 1]])
                    \o <<")", NL>>
          [] OTHER ->
                str(action_pymodd_class_name(action)) \o <<"(">>
                    \o build_arguments_content(values)
                    \o concat([i \in 1..Len(optional) |-> separated(action, i - 1, optional[i])])
                    \o <<")", NL>>

build_action_content(action) ==
    LET values == iter_flattened_argument_values(action)
        optional == build_optional_arguments_contents(action)
    IN  CASE action.name = "condition" ->
                LET condition == expect_next(values, 1)
                    then_actions == expect_next(values, 2)
                    else_actions == expect_next(values, 3)
                IN  <<"if", " ">> \o condition \o <<":">>
                        \o unwrap(strip_suffix(then_actions, <<NL>>))
                        \o (IF ~else_is_empty(else_actions)
                            THEN <<NL, "else", ":">> \o else_actions
                            ELSE <<NL>>)
          [] action.name = "for" ->
                for_content(expect_next(values, 1), expect_next(values, 2),
                            expect_next(values, 3), expect_next(values, 4))
          [] action.name = "repeat" ->
                repeat_content(expect_next(values, 1), expect_next(values, 2))
          [] action.name = "comment" ->
                str(action_pymodd_class_name(action)) \o <<"(">>
                    \o surround_string_with_quotes(
                           IF comment_of(action) /= None THEN comment_of(action)[1] ELSE "None")
                    \o concat([i \in 1..(Len(optional) - 1) |-> <<",", " ">> \o optional[i + 1]])
                    \o <<")", NL>>
          [] OTHER ->
                str(action_pymodd_class_name(action)) \o <<"(">>
                    \o build_arguments_content(values)
                    \o concat([i \in 1..Len(optional) |-> separated(action, i - 1, optional[i])])
                    \o <<")", NL>>

\* the closure of the fold in build_arguments_content
fold_arguments(pymodd_args, args_iter) ==
    IF args_iter = <<>> THEN pymodd_args
    ELSE LET arg == Head(args_iter)
             include_seperator == ~ends_with(pymodd_args, <<"(">>) /\ arg.item /= "FunctionEnd"
         IN  fold_arguments(
                 pymodd_args
                     \o (IF include_seperator THEN <<",", " ">> ELSE <<>>)
                     \o (IF arg.item = "Condition"
                         THEN <<"(">> \o build_argument_content(arg) \o <<")">>
                         ELSE build_argument_content(arg)),
                 Tail(args_iter))

\* the Value arm of build_argument_content
build_value_content(value) ==
    CASE value.kind = "string" ->
            LET found == find_variable_in_a_category_with_id(categories_to_variables, value.s)
            IN  IF found /= None
                THEN pymodd_class_name_of_category(found[1][2]) \o <<".">>
                         \o found[1][1].enum_name
                ELSE surround_string_with_quotes(value.s)
      [] value.kind = "bool" -> IF value.s = "true" THEN <<"True">> ELSE <<"False">>
      [] value.kind = "number" -> <<value.s>>
      [] OTHER -> <<"None">>

\* a ScriptKey arm that takes whatever item has the key for a script
script_key_content_of_any_item(key) ==
    LET item_with_key == find_item_with_key(root_directory, key)
    IN  IF item_with_key /= None
        THEN to_pascal_case(IF item_with_key[1].item = "Script"
                            THEN item_with_key[1].script.name
                            ELSE item_with_key[1].directory.name) \o <<"(", ")">>
        ELSE <<"None">>

\* the ScriptKey arm of build_argument_content
build_script_key_content(key) ==
    LET item_with_key == find_item_with_key(root_directory, key)
    IN  IF item_with_key /= None /\ item_with_key[1].item = "Script"
        THEN script_pymodd_class_name(item_with_key[1].script) \o <<"(", ")">>
        ELSE <<"None">>

build_argument_content(arg) ==
    CASE arg.item = "StartOfFunction" ->
            str(function_pymodd_class_name(arg.function)) \o <<"(">>
      [] arg.item = "Actions" ->
            <<NL>> \o (IF Len(arg.actions) > 0
                       THEN LET block == lines(build_actions_content(arg.actions))
                            IN  concat([i \in 1..Len(block) |-> indent(block[i])])
                       ELSE pass_line)
      [] arg.item = "Value" -> build_value_content(arg.value)
      [] arg.item = "Constant" -> str(arg.constant)
      [] arg.item \in {"Condition", "Concatenation", "Calculation"} ->
            build_operation_content(arg.operation)
      [] arg.item = "ScriptKey" -> build_script_key_content(arg.key)
      [] arg.item = "FunctionEnd" -> <<")">>

build_operation_content(operator) ==
    LET item_a == from_argument(operator.item_a)
        operator_item == from_argument(operator.operator)
        item_b == from_argument(operator.item_b)
    IN  build_operation_item_content(item_a) \o <<" ">>
            \o (IF operator_item.item = "Value"
                THEN LET mapped == into_operator(IF operator_item.value.kind = "string"
                                                 THEN operator_item.value.s ELSE "")
                     IN  IF mapped /= None THEN str(mapped[1]) ELSE <<>>
                ELSE <<>>)
            \o <<" ">> \o build_operation_item_content(item_b)

build_operation_item_content(operation_item) ==
    IF operation_item.item \in {"Condition", "Calculation"}
    THEN <<"(">> \o build_argument_content(operation_item) \o <<")">>
    ELSE IF operation_item.item = "StartOfFunction"
    THEN build_arguments_content(from_argument_iter_value(operation_item))
    ELSE build_argument_content(operation_item)

-----------------------------------------------------------------------------
(* Rendering: the actions, categories and directories checked *)

\* deepest nesting of condition/for/repeat blocks
MaxBlockDepth == 2
\* deepest nesting of operations inside an operand
MaxOperationDepth == 2

e_WEAPONS == <<"W","E","A","P","O","N","S">>
e_I == <<"I">>

\* shops holds two ids, music and entityTypeVariables one each; the id
\* "shared" is declared in shops and in music
shops == Category(c_shops, <<Variable("OJbEQyc7is", e_WEAPONS, None),
                             Variable("shared", e_APPLE, None)>>)
music == Category(c_music, <<Variable("shared", e_BANANA, None)>>)
entityTypeVariables == Category(c_entityTypeVariables, <<Variable("i", e_I, Some("number"))>>)

\* the iteration orders a HashMap of these categories can have, and the
\* empty map
CategoryMaps ==
    {<<>>} \cup {<<x, y, z>> : x, y, z \in {shops, music, entityTypeVariables}}
DistinctCategories(categories) ==
    \A i, j \in 1..Len(categories) :
        i /= j => categories[i].category /= categories[j].category

s_initialize == <<"i","n","i","t","i","a","l","i","z","e">>
s_spawn_boss == <<"s","p","a","w","n"," ","b","o","s","s">>
s_destroy_server == <<"d","e","s","t","r","o","y","_","s","e","r","v","e","r">>
s_2nd_wave == <<"2","n","d"," ","w","a","v","e">>
s_utils == <<"u","t","i","l","s">>
s_other == <<"o","t","h","e","r">>
s_root == <<"r","o","o","t">>

\* Directory::new("root", "null", ...) with scripts at depth 0, 1 and 2
EmptyRoot == Directory(s_root, "null", <<>>)
Tree ==
    Directory(s_root, "null",
        <<Script(s_initialize, "WI31HDK"),
          Directory(s_utils, "n3DhW3",
              <<Script(s_spawn_boss, "If2aW3B"),
                Directory(s_other, "HWI31WQ",
                    <<Script(s_destroy_server, "JK32Q03"),
                      Script(s_2nd_wave, "Q31E2RS")>>)>>)>>)
ScriptKeys == {"WI31HDK", "If2aW3B", "JK32Q03", "Q31E2RS", "n3DhW3", "HWI31WQ", "missing"}

\* an action without qualifiers
Plain(name, action_args) == Action(name, action_args, JNull, FALSE, FALSE)

\* a call of a function the table holds, and of one it does not
f_player_id ==
    Func(Function("getPlayerId",
        <<Argument(n_player, Func(Function("getTriggeringPlayer", <<>>)))>>))
f_random ==
    Func(Function("getRandomNumberBetween",
        <<Argument(n_item_a, Val(JNum(0))), Argument(n_item_b, Val(JNum(5)))>>))

\* a calculation or condition (aligned to item_a, operator, item_b) and a
\* concatenation (aligned to its two texts)
Op(name, operator, a, b) ==
    IF name = "concat"
    THEN Func(Function(name, <<Argument(n_text_a, a), Argument(n_text_b, b)>>))
    ELSE Func(Function(name, <<Argument(n_item_a, a), Argument(n_operator, Val(operator)),
                                Argument(n_item_b, b)>>))

OperatorOf(name) ==
    IF name = "calculate" THEN JStr("*") ELSE IF name = "condition" THEN JStr("==")
    ELSE JStr("+")

Leaves == {Val(JStr("hi")), Val(JNum(5)), Val(JBool(TRUE)), f_player_id}
SmallOperands == {Val(JNum(5)), Val(JStr("hi"))}

\* operands nested up to depth d: on one side any operand of depth d - 1, on
\* the other a literal
RECURSIVE Operands(_)
Operands(d) ==
    IF d = 0 THEN Leaves
    ELSE Leaves \cup
         {Op(name, OperatorOf(name), pair[1], pair[2]) :
             name \in {"calculate", "condition", "concat"},
             pair \in (Operands(d - 1) \X SmallOperands)
                          \cup (SmallOperands \X Operands(d - 1))}

\* the operator values checked: the tokens that pass through, and/or in
\* several cases, unknown tokens and values that are no strings
OperatorValues ==
    {JStr(token) : token \in OPERATORS}
        \cup {JStr("AND"), JStr("and"), JStr("And"), JStr("OR"), JStr("or"), JStr("oR"),
              JStr("XOR"), JStr("andor"), JStr("%"), JStr("=>"), JStr(""),
              JNum(1), JNull, JBool(TRUE)}

send(value) == Plain("sendChatMessage", <<Argument(n_message, value)>>)

ExpressionActions ==
    {<<send(value)>> : value \in Operands(MaxOperationDepth)}
        \cup {<<send(Op(name, operator, Val(JNum(1)), Val(JNum(5))))>> :
                 name \in {"calculate", "condition"}, operator \in OperatorValues}

\* the argument lists of the qualified actions: none, a literal, a call
\* without arguments, a call of a function the table does not hold, two
\* literals
QualifiedArgs ==
    {<<>>, <<Argument(n_message, Val(JStr("hi")))>>,
     <<Argument(n_entity, Func(Function("getTriggeringPlayer", <<>>)))>>,
     <<Argument(n_entity, Func(Function("getSomething", <<>>)))>>,
     <<Argument(n_item_a, Val(JNum(1))), Argument(n_item_b, Val(JNull))>>}

Comments == {JNull, JStr(""), JStr("hi!"), JNum(5)}

QualifiedActions ==
    {<<Action(name, action_args, comment, disabled, ran_on_client)>> :
        name \in {"startUsingItem", "comment"}, action_args \in QualifiedArgs,
        comment \in Comments, disabled \in BOOLEAN, ran_on_client \in BOOLEAN}

c_true == Op("condition", JStr("=="), Val(JBool(TRUE)), Val(JBool(TRUE)))

Condition(condition, then_actions, else_actions) ==
    Plain("condition", <<Argument(n_condition, condition),
                         Argument(n_then, Actions(then_actions)),
                         Argument(n_else, Actions(else_actions))>>)
For(variable, start, stop, block) ==
    Plain("for", <<Argument(n_variableName, variable), Argument(n_start, start),
                   Argument(n_stop, stop), Argument(n_actions, Actions(block))>>)
Repeat(count, block) ==
    Plain("repeat", <<Argument(n_count, count), Argument(n_actions, Actions(block))>>)

say_hi == send(Val(JStr("hi")))
return_loop == Action("return", <<>>, JStr("hi!"), FALSE, TRUE)

SmallBlocks == {<<>>, <<say_hi>>, <<say_hi, return_loop>>}

\* blocks nested up to depth d: a condition has any block of depth d - 1 as
\* one branch and a small block as the other
RECURSIVE Blocks(_)
RECURSIVE Control(_)
Control(d) ==
    {Condition(c_true, pair[1], pair[2]) :
        pair \in (Blocks(d - 1) \X SmallBlocks) \cup (SmallBlocks \X Blocks(d - 1))}
        \cup {For(Val(JStr("i")), Val(JNum(0)), Val(JNum(5)), block) : block \in Blocks(d - 1)}
        \cup {Repeat(Val(JNum(5)), block) : block \in Blocks(d - 1)}
Blocks(d) ==
    IF d = 0 THEN SmallBlocks
    ELSE SmallBlocks \cup {<<action>> : action \in Control(d)}
             \cup {<<say_hi, action>> : action \in Control(d)}

\* loops over literal and computed bounds
LoopActions ==
    {<<For(variable, start, stop, block)>> :
        variable \in {Val(JStr("i")), Val(JStr("x"))},
        start \in {Val(JNum(0)), Val(JNum(1)), f_random},
        stop \in {Val(JNum(5)), Val(JNum(0)), f_player_id},
        block \in SmallBlocks}
        \cup {<<Repeat(count, block)>> :
                 count \in {Val(JNum(5)), Val(JNum(0)), f_random,
                            Op("calculate", JStr("+"), Val(JNum(1)), Val(JNum(5)))},
                 block \in SmallBlocks}

\* control-flow actions whose aligned arguments are null placeholders, or
\* that have fewer arguments than the form reads
MalformedActions ==
    {<<Plain("condition", <<Argument(n_condition, c_true),
                            Argument(n_then, Val(JNull)),
                            Argument(n_else, Actions(<<>>))>>)>>,
     <<Plain("condition", <<Argument(n_condition, c_true),
                            Argument(n_then, Actions(<<say_hi>>)),
                            Argument(n_else, Val(JNull))>>), say_hi>>,
     <<Plain("condition", <<>>)>>,
     <<Plain("for", <<Argument(n_variableName, Val(JStr("i")))>>), say_hi>>,
     <<Plain("repeat", <<>>)>>}

\* control-flow actions with a comment and flags of their own
QualifiedControl ==
    {<<[action EXCEPT !.comment = comment, !.disabled = disabled,
                      !.ran_on_client = ran_on_client]>> :
        action \in {Condition(c_true, <<say_hi>>, <<>>),
                    Condition(c_true, <<>>, <<say_hi>>),
                    For(Val(JStr("i")), Val(JNum(0)), Val(JNum(5)), <<>>),
                    Repeat(Val(JNum(5)), <<say_hi>>)},
        comment \in {JNull, JStr("hi!")}, disabled \in BOOLEAN, ran_on_client \in BOOLEAN}

LiteralValues ==
    {JStr("OJbEQyc7is"), JStr("shared"), JStr("i"), JStr("hi"), JStr(""), JStr("top"),
     JNum(5), JNum(0), JBool(TRUE), JBool(FALSE), JNull, JArr(<<>>), JObj(<<>>)}

run_script(key) == Plain("runScript", <<Argument(n_scriptName, Val(JStr(key)))>>)

InitRender ==
    /\ pc = "call"
    /\ \/ /\ categories_to_variables = <<shops>>
          /\ root_directory = EmptyRoot
          /\ script_actions \in ExpressionActions \cup QualifiedActions
                                    \cup Blocks(MaxBlockDepth) \cup LoopActions
                                    \cup MalformedActions \cup QualifiedControl
       \/ /\ categories_to_variables \in {m \in CategoryMaps : DistinctCategories(m)}
          /\ root_directory = EmptyRoot
          /\ \E value \in LiteralValues : script_actions = <<send(Val(value))>>
       \/ /\ categories_to_variables = <<>>
          /\ root_directory \in {EmptyRoot, Tree}
          /\ \E key \in ScriptKeys : script_actions = <<run_script(key)>>
    /\ content = <<>>
    /\ arguments = <<>> /\ pymodd_structure_parameters = <<>>
    /\ aligned_args = <<>> /\ unplaced = <<>> /\ aligned = <<>>
    /\ variables = <<>> /\ resolved = <<>>
    /\ object_data = <<>> /\ args = <<>>
    /\ scripts_data = <<>> /\ directory = <<>> /\ game_items = <<>>
    /\ elements = <<>> /\ curr_depth = 0
    /\ a_script = <<>> /\ game_data = <<>> /\ category_to_variables = <<>>
    /\ category_to_entity_types = <<>> /\ generated = <<>>

\* build_actions_content(script_actions); a panic inside it leaves no text
Render ==
    /\ pc = "call"
    /\ \E text \in {build_actions_content(script_actions)} :
           IF \E i \in 1..Len(text) : text[i] = PANIC
           THEN pc' = "panic" /\ content' = <<>>
           ELSE pc' = "return" /\ content' = text
    /\ UNCHANGED <<categories_to_variables, root_directory, script_actions,
                   alignVars, dedupVars, parseVars, directoryVars,
                   scriptVars, gameDataVars>>

NextRender == Render

SpecRender == InitRender /\ [][NextRender]_vars

-----------------------------------------------------------------------------
(* Rendering: properties *)

\* the blocks an action holds, and every action of a list at any depth
BlocksOf(action) ==
    {action.args[j].value.actions :
        j \in {k \in 1..Len(action.args) : action.args[k].value.av = "Actions"}}
RECURSIVE ActionsIn(_)
ActionsIn(action_list) ==
    UNION {{action_list[i]} \cup UNION {ActionsIn(block) : block \in BlocksOf(action_list[i])} :
              i \in 1..Len(action_list)}

\* a condition action whose three arguments are a condition, a then-block
\* and an else-block
IsBranch(action) ==
    /\ action.name = "condition"
    /\ Len(action.args) = 3
    /\ action.args[1].value.av = "Function"
    /\ action.args[1].value.function.name = "condition"
    /\ action.args[2].value.av = "Actions"
    /\ action.args[3].value.av = "Actions"
ThenOf(action) == action.args[2].value.actions
ElseOf(action) == action.args[3].value.actions

\* a block as the claims describe it: a newline, then the one line `pass`
\* under a tab, or every line of the rendered actions under one more tab
TabbedLines(text) ==
    LET block == lines(text)
    IN  concat([i \in 1..Len(block) |-> <<TAB>> \o block[i] \o <<NL>>])
BlockText(block) ==
    <<NL>> \o (IF block = <<>> THEN <<TAB, "pass", NL>>
               ELSE TabbedLines(build_actions_content(block)))

\* the text has an `else:` line that is not indented
HasElseClause(text) ==
    \E i \in 1..(Len(text) - 2) : SubSeq(text, i, i + 2) = <<NL, "else", ":">>

ConditionText(action) ==
    build_operation_content(Operation(action.args[1].value.function))

\* C11: a condition action with a then-block and an else-block renders as
\* `if <condition>:` and the indented then-block, followed by `else:` and
\* the indented else-block exactly when the else-block has at least one
\* action; with both blocks empty the text is `if <cond>:\n\tpass\n`.  This
\* holds of every such action of the script, at any depth, and of the text
\* returned for a script that is one such action.
C11_ConditionForm ==
    pc = "return" =>
        /\ \A action \in {a \in ActionsIn(script_actions) : IsBranch(a)} :
              LET text == build_action_content(action)
              IN  /\ text = <<"if", " ">> \o ConditionText(action) \o <<":">>
                               \o BlockText(ThenOf(action))
                               \o (IF Len(ElseOf(action)) > 0
                                   THEN <<"else", ":">> \o BlockText(ElseOf(action))
                                   ELSE <<>>)
                  /\ HasElseClause(text) <=> Len(ElseOf(action)) > 0
                  /\ (ThenOf(action) = <<>> /\ ElseOf(action) = <<>>) =>
                        text = <<"if", " ">> \o ConditionText(action)
                                   \o <<":", NL, TAB, "pass", NL>>
        /\ (Len(script_actions) = 1 /\ IsBranch(script_actions[1])) =>
              /\ content = build_action_content(script_actions[1])
              /\ HasElseClause(content) <=> Len(ElseOf(script_actions[1])) > 0

\* a rendered condition whose else-block has two actions and whose
\* then-block holds another condition
C11_Witness ==
    /\ pc = "return"
    /\ Len(script_actions) = 1
    /\ IsBranch(script_actions[1])
    /\ Len(ElseOf(script_actions[1])) = 2
    /\ \E i \in 1..Len(ThenOf(script_actions[1])) : IsBranch(ThenOf(script_actions[1])[i])
    /\ HasElseClause(content)


\* a for action with a variable, a start, a stop and a block; a repeat
\* action with a count and a block
IsFor(action) ==
    /\ action.name = "for"
    /\ Len(action.args) = 4
    /\ \A i \in 1..3 : action.args[i].value.av /= "Actions"
    /\ action.args[4].value.av = "Actions"
IsRepeat(action) ==
    /\ action.name = "repeat"
    /\ Len(action.args) = 2
    /\ action.args[1].value.av /= "Actions"
    /\ action.args[2].value.av = "Actions"

\* an argument value rendered on its own, a call with its arguments
ValueText(argument) ==
    build_arguments_content(from_argument_iter_value(from_argument(argument)))

\* C12: a for action renders `for <var> in range(<start>, <stop>):` from its
\* first three values, followed by its fourth value as the indented block; a
\* repeat action renders `for _ in repeat(<count>):` from its first value,
\* followed by its second value as the indented block.
C12_LoopForms ==
    pc = "return" =>
        \A action \in ActionsIn(script_actions) :
            /\ IsFor(action) =>
                  build_action_content(action) =
                      <<"for", " ">> \o ValueText(action.args[1])
                          \o <<" ", "in", " ", "range", "(">> \o ValueText(action.args[2])
                          \o <<",", " ">> \o ValueText(action.args[3]) \o <<")", ":">>
                          \o BlockText(action.args[4].value.actions)
            /\ IsRepeat(action) =>
                  build_action_content(action) =
                      <<"for", " ", "_", " ", "in", " ", "repeat", "(">>
                          \o ValueText(action.args[1]) \o <<")", ":">>
                          \o BlockText(action.args[2].value.actions)


\* the number of tabs a line starts with
RECURSIVE LeadingTabs(_)
LeadingTabs(line) ==
    IF line /= <<>> /\ Head(line) = TAB THEN 1 + LeadingTabs(Tail(line)) ELSE 0

\* a literal argument
IsLiteral(argument) == argument.value.av = "Value"

\* every condition, for and repeat action of the list, at any depth, has its
\* blocks in place and literal loop bounds, and no other action holds a block
BlocksInPlace(action_list) ==
    \A action \in ActionsIn(action_list) :
        CASE action.name = "condition" -> IsBranch(action)
          [] action.name = "for" -> IsFor(action) /\ \A i \in 1..3 : IsLiteral(action.args[i])
          [] action.name = "repeat" -> IsRepeat(action) /\ IsLiteral(action.args[1])
          [] OTHER -> BlocksOf(action) = {}

\* the lines the claim expects of a list of actions at depth d: the depth
\* of each line and the word it starts with ("" for a call)
RECURSIVE ExpectedLines(_, _)
ExpectedBlock(block, d) ==
    IF block = <<>> THEN <<[depth |-> d, word |-> "pass"]>> ELSE ExpectedLines(block, d)
ExpectedLines(action_list, d) ==
    IF action_list = <<>> THEN <<>>
    ELSE LET action == Head(action_list)
         IN  (CASE action.name = "condition" ->
                     <<[depth |-> d, word |-> "if"]>>
                         \o ExpectedBlock(ThenOf(action), d + 1)
                         \o (IF ElseOf(action) /= <<>>
                             THEN <<[depth |-> d, word |-> "else"]>>
                                      \o ExpectedLines(ElseOf(action), d + 1)
                             ELSE <<>>)
                [] action.name = "for" ->
                     <<[depth |-> d, word |-> "for"]>>
                         \o ExpectedBlock(action.args[4].value.actions, d + 1)
                [] action.name = "repeat" ->
                     <<[depth |-> d, word |-> "for"]>>
                         \o ExpectedBlock(action.args[2].value.actions, d + 1)
                [] OTHER -> <<[depth |-> d, word |-> ""]>>)
             \o ExpectedLines(Tail(action_list), d)

\* the line has exactly the expected tabs and then the expected word
LineIsAt(line, expected) ==
    /\ LeadingTabs(line) = expected.depth
    /\ Len(line) > expected.depth
    /\ expected.word /= "" => line[expected.depth + 1] = expected.word
    /\ expected.word = "" => line[expected.depth + 1] \notin {"if", "else", "for", "pass"}
    /\ expected.word = "pass" => Len(line) = expected.depth + 1

\* C13: an empty nested block renders as exactly one `pass` line, and every
\* line of a non-empty nested block is the line of the rendered actions
\* under one more tab; so in a script whose blocks are in place every line
\* starts with exactly as many tabs as the depth of its statement, an
\* `else:` line with as many as its `if`.
C13_BlockIndentation ==
    pc = "return" =>
        /\ \A action \in ActionsIn(script_actions) : \A block \in BlocksOf(action) :
              LET text == build_argument_content([item |-> "Actions", actions |-> block])
                  inner == lines(build_actions_content(block))
              IN  /\ block = <<>> => text = <<NL, TAB, "pass", NL>>
                  /\ block /= <<>> =>
                        /\ Head(text) = NL
                        /\ text[Len(text)] = NL
                        /\ lines(Tail(text)) =
                               [i \in 1..Len(inner) |-> <<TAB>> \o inner[i]]
        /\ BlocksInPlace(script_actions) =>
              LET rendered == lines(content)
                  expected == ExpectedLines(script_actions, 0)
              IN  /\ Len(rendered) = Len(expected)
                  /\ \A i \in 1..Len(rendered) : LineIsAt(rendered[i], expected[i])

\* a rendered script with a line under two tabs or more and an `else:` line
\* under one tab
C13_Witness ==
    /\ pc = "return"
    /\ BlocksInPlace(script_actions)
    /\ \E i \in 1..Len(lines(content)) : LeadingTabs(lines(content)[i]) >= 2
    /\ \E i \in 1..Len(lines(content)) :
          SubSeq(lines(content)[i], 1, 2) = <<TAB, "else">>
    /\ \E i \in 1..Len(lines(content)) :
          lines(content)[i] = <<TAB, TAB, "pass">>


\* the functions that are operations
IsOperation(argument) ==
    /\ argument.value.av = "Function"
    /\ argument.value.function.name \in {"calculate", "condition", "concat"}
IsCalculationOrCondition(argument) ==
    /\ argument.value.av = "Function"
    /\ argument.value.function.name \in {"calculate", "condition"}

\* every argument of a list of arguments, at any depth of calls and blocks
RECURSIVE ArgumentsIn(_)
ArgumentsIn(argument_list) ==
    UNION {{argument_list[i]} \cup
           (CASE argument_list[i].value.av = "Function" ->
                    ArgumentsIn(argument_list[i].value.function.args)
              [] argument_list[i].value.av = "Actions" ->
                    UNION {ArgumentsIn(action.args) :
                              action \in ActionsIn(argument_list[i].value.actions)}
              [] OTHER -> {}) :
           i \in 1..Len(argument_list)}
ScriptArguments ==
    UNION {ArgumentsIn(script_actions[i].args) : i \in 1..Len(script_actions)}

\* an argument rendered on its own: an operation as `<left> <op> <right>`,
\* anything else as a value
OperationText(argument) == build_operation_content(Operation(argument.value.function))
Standalone(argument) ==
    IF IsOperation(argument) THEN OperationText(argument) ELSE ValueText(argument)

\* the operator between the operands
OperatorText(operation) ==
    IF operation.operator.value.av = "Value" /\ operation.operator.value.json.kind = "string"
           /\ into_operator(operation.operator.value.json.s) /= None
    THEN str(into_operator(operation.operator.value.json.s)[1])
    ELSE <<>>

\* an operand as the claim describes it
OperandText(argument) ==
    IF IsCalculationOrCondition(argument)
    THEN <<"(">> \o Standalone(argument) \o <<")">>
    ELSE Standalone(argument)

\* C14: in a rendered operation `<left> <op> <right>` an operand that is a
\* calculation or a condition is in parentheses, and an operand that is a
\* concatenation, a literal or another call is rendered as it is on its own;
\* this holds of every operation of the script, at any depth, and of the
\* text returned for an action whose one argument is an operation.
C14_OperandParentheses ==
    pc = "return" =>
        /\ \A argument \in {a \in ScriptArguments : IsOperation(a)} :
              LET operation == Operation(argument.value.function)
              IN  /\ OperationText(argument) =
                         OperandText(operation.item_a) \o <<" ">> \o OperatorText(operation)
                             \o <<" ">> \o OperandText(operation.item_b)
                  /\ \A operand \in {operation.item_a, operation.item_b} :
                        IsLiteral(operand) => Head(OperandText(operand)) /= "("
        /\ (/\ Len(script_actions) = 1
            /\ script_actions[1].name = "sendChatMessage"
            /\ Len(script_actions[1].args) = 1
            /\ IsOperation(script_actions[1].args[1])
            /\ script_actions[1].args[1].value.function.name /= "condition") =>
              content = <<"send_chat_message_to_everyone", "(">>
                            \o OperationText(script_actions[1].args[1]) \o <<")", NL>>

\* a rendered calculation whose left operand is a condition and whose right
\* operand is a literal
C14_Witness ==
    /\ pc = "return"
    /\ Len(script_actions) = 1
    /\ Len(script_actions[1].args) = 1
    /\ LET argument == script_actions[1].args[1]
       IN  /\ IsOperation(argument)
           /\ argument.value.function.name = "calculate"
           /\ LET operation == Operation(argument.value.function)
              IN  /\ IsOperation(operation.item_a)
                  /\ operation.item_a.value.function.name = "condition"
                  /\ IsLiteral(operation.item_b)
    /\ content[3] = "("


\* the script is one sendChatMessage whose argument is a calculation or a
\* condition of the literals 1 and 5
IsOperatorProbe ==
    /\ Len(script_actions) = 1
    /\ script_actions[1].name = "sendChatMessage"
    /\ Len(script_actions[1].args) = 1
    /\ IsCalculationOrCondition(script_actions[1].args[1])
    /\ Operation(script_actions[1].args[1].value.function).item_a = Argument(n_item_a, Val(JNum(1)))
    /\ Operation(script_actions[1].args[1].value.function).item_b = Argument(n_item_b, Val(JNum(5)))
ProbedOperator == Operation(script_actions[1].args[1].value.function).operator.value.json

\* the operator text the claim gives a JSON value
ClaimedOperator(value) ==
    IF value.kind /= "string" THEN <<>>
    ELSE IF value.s \in {"==", "!=", "<=", "<", ">", ">=", "+", "-", "/", "*", "**"}
         THEN <<value.s>>
    ELSE IF value.s \in {"AND", "and", "And"} THEN <<"&">>
    ELSE IF value.s \in {"OR", "or", "oR"} THEN <<"|">>
    ELSE <<>>

\* C15: the eleven comparison and arithmetic tokens render as themselves,
\* AND and OR in any letter case as & and |, and every other operator value,
\* a value that is no string included, as the empty string; rendering the
\* operation does not fail.
C15_OperatorMapping ==
    (pc /= "call" /\ IsOperatorProbe) =>
        /\ pc = "return"
        /\ LET operation == <<"1", " ">> \o ClaimedOperator(ProbedOperator) \o <<" ", "5">>
           IN  content = <<"send_chat_message_to_everyone", "(">>
                             \o (IF script_actions[1].args[1].value.function.name = "condition"
                                 THEN <<"(">> \o operation \o <<")">>
                                 ELSE operation)
                             \o <<")", NL>>

\* a rendered calculation whose operator is `And`
C15_Witness ==
    /\ pc = "return"
    /\ IsOperatorProbe
    /\ ProbedOperator = JStr("And")
    /\ content = <<"send_chat_message_to_everyone", "(", "1", " ", "&", " ", "5", ")", NL>>


\* the script is one action rendered in the default form
IsDefaultForm ==
    /\ Len(script_actions) = 1
    /\ script_actions[1].name \notin {"condition", "for", "repeat", "comment"}

\* the action has a comment that is not empty
HasComment(action) == action.comment.kind = "string" /\ action.comment.s /= ""

\* the qualifiers the claim gives an action, in the claimed order
ClaimedQualifiers(action) ==
    (IF HasComment(action) THEN <<(<<"comment", "=", "'", action.comment.s, "'">>)>> ELSE <<>>)
    \o (IF action.disabled THEN <<(<<"disabled", "=", "True">>)>> ELSE <<>>)
    \o (IF action.ran_on_client THEN <<(<<"run_on_client", "=", "True">>)>> ELSE <<>>)

\* the texts joined by ", "
RECURSIVE Joined(_)
Joined(texts) ==
    IF texts = <<>> THEN <<>>
    ELSE IF Len(texts) = 1 THEN texts[1]
    ELSE texts[1] \o <<",", " ">> \o Joined(Tail(texts))

\* the call up to the end of its positional arguments
Positional(action) == build_arguments_content(iter_flattened_argument_values(action))
CallHead(action) == str(action_pymodd_class_name(action)) \o <<"(">> \o Positional(action)

\* how often a piece occurs in a text
Occurrences(text, piece) == Cardinality({i \in 1..Len(text) : text[i] = piece})

\* C16: after the positional arguments a default-form call has the
\* qualifiers comment=..., disabled=True, run_on_client=True in that order,
\* the comment exactly when the action has a non-empty comment, the other
\* two exactly when their flag is true.
C16_QualifierOrder ==
    (pc = "return" /\ IsDefaultForm) =>
        LET action == script_actions[1]
            tail == Joined(ClaimedQualifiers(action)) \o <<")", NL>>
        IN  /\ content \in {CallHead(action) \o tail, CallHead(action) \o <<",", " ">> \o tail}
            /\ Occurrences(content, "comment") = (IF HasComment(action) THEN 1 ELSE 0)
            /\ Occurrences(content, "disabled") = (IF action.disabled THEN 1 ELSE 0)
            /\ Occurrences(content, "run_on_client") = (IF action.ran_on_client THEN 1 ELSE 0)

\* a rendered default-form call with all three qualifiers
C16_Witness ==
    /\ pc = "return"
    /\ IsDefaultForm
    /\ HasComment(script_actions[1])
    /\ script_actions[1].disabled
    /\ script_actions[1].ran_on_client
    /\ script_actions[1].args /= <<>>
    /\ Occurrences(content, "comment") = 1
    /\ Occurrences(content, "disabled") = 1
    /\ Occurrences(content, "run_on_client") = 1


\* C17: in a default-form call ", " stands between the positional arguments
\* and the first qualifier exactly when the rendered positional arguments
\* are not empty, so a call without positional arguments has its first
\* qualifier right after the opening parenthesis; consecutive qualifiers
\* are always separated by ", ".
C17_QualifierSeparator ==
    (pc = "return" /\ IsDefaultForm) =>
        LET action == script_actions[1]
            qualifiers == build_optional_arguments_contents(action)
        IN  /\ content = CallHead(action)
                             \o (IF Positional(action) /= <<>> /\ qualifiers /= <<>>
                                 THEN <<",", " ">> ELSE <<>>)
                             \o Joined(qualifiers) \o <<")", NL>>
            /\ (Positional(action) = <<>> /\ qualifiers /= <<>>) =>
                  /\ content[2] = "("
                  /\ content[3] = Head(qualifiers[1])
            /\ Occurrences(content, ",") >=
                  Len(qualifiers) - (IF Positional(action) = <<>> THEN 1 ELSE 0)

\* a rendered call without positional arguments and with two qualifiers,
\* and so with one separator
C17_Witness ==
    /\ pc = "return"
    /\ IsDefaultForm
    /\ script_actions[1].args = <<>>
    /\ Len(build_optional_arguments_contents(script_actions[1])) = 2
    /\ content[3] \in {"comment", "disabled"}
    /\ Occurrences(content, ",") = 1


\* the scripts and the folders of a directory, at any depth
RECURSIVE ScriptsOf(_)
ScriptsOf(node) ==
    UNION {IF node.children[i].kind = "Script" THEN {node.children[i]}
           ELSE ScriptsOf(node.children[i]) : i \in 1..Len(node.children)}
RECURSIVE FoldersOf(_)
FoldersOf(node) ==
    UNION {IF node.children[i].kind = "Directory"
           THEN {node.children[i]} \cup FoldersOf(node.children[i])
           ELSE {} : i \in 1..Len(node.children)}

\* the script is one runScript action with a script key
IsRunScript ==
    /\ Len(script_actions) = 1
    /\ script_actions[1].name = "runScript"
    /\ Len(script_actions[1].args) = 1
    /\ script_actions[1].args[1].name = n_scriptName
    /\ script_actions[1].args[1].value.av = "Value"
    /\ script_actions[1].args[1].value.json.kind = "string"
RunScriptKey == script_actions[1].args[1].value.json.s

\* C18: a script key renders as `<ScriptClassName>()` when a script of the
\* directory, at any folder depth, has the key, and as `None` when no item
\* has it or the item that has it is a folder.
C18_ScriptKeyResolution ==
    (pc = "return" /\ IsRunScript) =>
        LET named == {script \in ScriptsOf(root_directory) : script.key = RunScriptKey}
        IN  /\ named /= {} =>
                  \E script \in named :
                      content = <<"run_script", "(">> \o script_pymodd_class_name(script)
                                    \o <<"(", ")", ")", NL>>
            /\ named = {} => content = <<"run_script", "(", "None", ")", NL>>
            /\ (\E folder \in FoldersOf(root_directory) : folder.key = RunScriptKey) =>
                  content = <<"run_script", "(", "None", ")", NL>>

\* a rendered key of a script two folders deep
C18_Witness ==
    /\ pc = "return"
    /\ IsRunScript
    /\ root_directory = Tree
    /\ RunScriptKey = "JK32Q03"
    /\ content = <<"run_script", "(", "D","e","s","t","r","o","y","S","e","r","v","e","r",
                   "(", ")", ")", NL>>


\* the script is one action whose only argument reaches the renderer as a
\* literal value
IsLiteralProbe ==
    /\ Len(script_actions) = 1
    /\ script_actions[1].name = "sendChatMessage"
    /\ Len(script_actions[1].args) = 1
    /\ IsLiteral(script_actions[1].args[1])
    /\ from_argument(script_actions[1].args[1]).item = "Value"
ProbedLiteral == script_actions[1].args[1].value.json

\* the <<category, variable>> pairs of the declared variables with the id
Holders(variable_id) ==
    {<<categories_to_variables[i].category, categories_to_variables[i].variables[j]>> :
        <<i, j>> \in {p \in (1..Len(categories_to_variables)) \X (1..MaxVars) :
                        /\ p[2] <= Len(categories_to_variables[p[1]].variables)
                        /\ categories_to_variables[p[1]].variables[p[2]].id = variable_id}}

LiteralCall(text) ==
    <<"send_chat_message_to_everyone", "(">> \o text \o <<")", NL>>

-----------------------------------------------------------------------------
(* Directory::parse and build_directory_elements                           *)

\* most nodes of one flat map of scripts
MaxNodes == 3

\* a node of the flat map: a folder has a folderName, a script a name
ScriptNode(key, name, parent, order) ==
    [key |-> key, name |-> Some(name), folderName |-> None,
     parent |-> parent, order |-> order]
FolderNode(key, folderName, parent, order) ==
    [key |-> key, name |-> None, folderName |-> Some(folderName),
     parent |-> parent, order |-> order]

\* sort_by_key on the order field: a stable sort, nodes of equal order keep
\* the iteration order of the map
RECURSIVE sort_by_order(_)
sort_by_order(nodes) ==
    IF nodes = <<>> THEN <<>>
    ELSE LET last == nodes[Len(nodes)]
             front == sort_by_order(SubSeq(nodes, 1, Len(nodes) - 1))
             kept == Cardinality({i \in 1..Len(front) : front[i].order <= last.order})
         IN  SubSeq(front, 1, kept) \o <<last>> \o SubSeq(front, kept + 1, Len(front))

\* the children of a parent: the nodes that name it, ascending by order,
\* folders with their own children
RECURSIVE children_of(_, _)
children_of(scripts, parent) ==
    LET named == sort_by_order(SelectSeq(scripts, LAMBDA node : node.parent = parent))
    IN  [i \in 1..Len(named) |->
            IF named[i].folderName /= None
            THEN Directory(named[i].folderName[1], named[i].key,
                           children_of(scripts, Some(named[i].key)))
            ELSE Script(named[i].name[1], named[i].key)]

\* Directory::parse
Directory_parse(scripts) == Directory(s_root, "null", children_of(scripts, None))

\* Directory::into_iter: GameItem::Dir, GameItem::Script, GameItem::DirectoryEnd
into_iter(root) == iter_flattened(root.children)

\* "\t".repeat(n)
tabs(n) == [i \in 1..n |-> TAB]

\* an element put in front of the others
push_front(vec, element) == <<element>> \o vec

\* Vec::push
push(vec, element) == Append(vec, element)

\* format!("{}Folder({}, [", ...)
folder_element(depth, game_item) ==
    tabs(depth) \o <<"Folder", "(">> \o <<"'">> \o game_item.directory.name \o <<"'">>
        \o <<",", " ", "[">>

\* format!("{}{}(),", ...)
script_element(depth, game_item) ==
    tabs(depth) \o script_pymodd_class_name(game_item.script) \o <<"(", ")", ",">>

\* format!("{}]),", ...)
directory_end_element(depth) == tabs(depth) \o <<"]", ")", ",">>

\* the keys and names of the nodes, in the order the map holds them
NodeKeys == <<"WI31HDK", "31IAD2B", "HWI31WQ", "JK32Q03", "SDUW31W">>
s_change_state == <<"c","h","a","n","g","e","_","s","t","a","t","e">>
NodeNames == <<s_initialize, s_utils, s_other, s_destroy_server, s_change_state>>
Orders == {1, 2}

\* the nodes the map can hold under its i-th key: a script or a folder, at
\* the root or under a node of an earlier key
NodesOfKey(i) ==
    {ScriptNode(NodeKeys[i], NodeNames[i], parent, order) :
        parent \in {None} \cup {Some(NodeKeys[j]) : j \in 1..(i - 1)}, order \in Orders}
    \cup
    {FolderNode(NodeKeys[i], NodeNames[i], parent, order) :
        parent \in {None} \cup {Some(NodeKeys[j]) : j \in 1..(i - 1)}, order \in Orders}

\* the flat maps of n nodes, and the iteration orders of a map: by key,
\* forwards or backwards
RECURSIVE FlatMaps(_)
FlatMaps(n) ==
    IF n = 0 THEN {<<>>}
    ELSE {Append(nodes, node) : nodes \in FlatMaps(n - 1), node \in NodesOfKey(n)}
Reverse(nodes) == [i \in 1..Len(nodes) |-> nodes[Len(nodes) + 1 - i]]

InitDirectory ==
    /\ pc = "call"
    /\ \E n \in 0..MaxNodes : \E nodes \in FlatMaps(n) :
           scripts_data \in {nodes, Reverse(nodes)}
    /\ directory = <<>> /\ game_items = <<>>
    /\ elements = <<>> /\ curr_depth = 0
    /\ a_script = <<>> /\ game_data = <<>> /\ category_to_variables = <<>>
    /\ category_to_entity_types = <<>> /\ generated = <<>>
    /\ arguments = <<>> /\ pymodd_structure_parameters = <<>>
    /\ aligned_args = <<>> /\ unplaced = <<>> /\ aligned = <<>>
    /\ variables = <<>> /\ resolved = <<>>
    /\ object_data = <<>> /\ args = <<>>
    /\ categories_to_variables = <<>> /\ root_directory = <<>>
    /\ script_actions = <<>> /\ content = <<>>

\* Directory::parse(scripts_data)
ParseDirectory ==
    /\ pc = "call"
    /\ directory' = Directory_parse(scripts_data)
    /\ pc' = "parsed"
    /\ UNCHANGED <<scripts_data, game_items, elements, curr_depth,
                   alignVars, dedupVars, parseVars, renderVars,
                   scriptVars, gameDataVars>>

\* build_directory_elements: the empty vector, depth 0 and the iterator
BuildDirectoryElements ==
    /\ pc = "parsed"
    /\ elements' = <<>>
    /\ curr_depth' = 0
    /\ game_items' = into_iter(directory)
    /\ pc' = "for_each"
    /\ UNCHANGED <<scripts_data, directory, alignVars, dedupVars, parseVars, renderVars,
                   scriptVars, gameDataVars>>

\* the GameItem::Dir arm: one level deeper, the element at the old depth
PushDir ==
    /\ pc = "for_each"
    /\ game_items /= <<>>
    /\ Head(game_items).item = "StartOfDirectory"
    /\ curr_depth' = curr_depth + 1
    /\ elements' = push(elements, folder_element(curr_depth' - 1, Head(game_items)))
    /\ game_items' = Tail(game_items)
    /\ UNCHANGED <<pc, scripts_data, directory, alignVars, dedupVars, parseVars, renderVars,
                   scriptVars, gameDataVars>>

\* the GameItem::Script arm
PushScript ==
    /\ pc = "for_each"
    /\ game_items /= <<>>
    /\ Head(game_items).item = "Script"
    /\ elements' = push(elements, script_element(curr_depth, Head(game_items)))
    /\ game_items' = Tail(game_items)
    /\ UNCHANGED <<pc, curr_depth, scripts_data, directory,
                   alignVars, dedupVars, parseVars, renderVars,
                   scriptVars, gameDataVars>>

\* a GameItem::DirectoryEnd arm that leaves the depth as it is
PushDirectoryEndAtSameDepth ==
    /\ pc = "for_each"
    /\ game_items /= <<>>
    /\ Head(game_items).item = "DirectoryEnd"
    /\ elements' = push(elements, directory_end_element(curr_depth))
    /\ game_items' = Tail(game_items)
    /\ UNCHANGED <<pc, curr_depth, scripts_data, directory,
                   alignVars, dedupVars, parseVars, renderVars,
                   scriptVars, gameDataVars>>

\* the GameItem::DirectoryEnd arm: one level up, the element at the new
\* depth; a usize below zero panics
PushDirectoryEnd ==
    /\ pc = "for_each"
    /\ game_items /= <<>>
    /\ Head(game_items).item = "DirectoryEnd"
    /\ IF curr_depth = 0
       THEN pc' = "panic" /\ UNCHANGED <<curr_depth, elements, game_items>>
       ELSE /\ curr_depth' = curr_depth - 1
            /\ elements' = push(elements, directory_end_element(curr_depth'))
            /\ game_items' = Tail(game_items)
            /\ pc' = pc
    /\ UNCHANGED <<scripts_data, directory, alignVars, dedupVars, parseVars, renderVars,
                   scriptVars, gameDataVars>>

\* the iterator is exhausted: elements is returned
ReturnElements ==
    /\ pc = "for_each"
    /\ game_items = <<>>
    /\ pc' = "return"
    /\ UNCHANGED <<directoryVars, alignVars, dedupVars, parseVars, renderVars,
                   scriptVars, gameDataVars>>

NextDirectory ==
    \/ ParseDirectory
    \/ BuildDirectoryElements
    \/ PushDir
    \/ PushScript
    \/ PushDirectoryEnd
    \/ ReturnElements

SpecDirectory == InitDirectory /\ [][NextDirectory]_vars


-----------------------------------------------------------------------------
(* Directory traversal: properties *)

\* the node of the flat map with the key
NodeOfKey(key) ==
    scripts_data[CHOOSE i \in 1..Len(scripts_data) : scripts_data[i].key = key]
HasNode(key) == \E i \in 1..Len(scripts_data) : scripts_data[i].key = key

\* the node hangs under the root through folders only
RECURSIVE InTree(_)
InTree(node) ==
    \/ node.parent = None
    \/ /\ HasNode(node.parent[1])
       /\ NodeOfKey(node.parent[1]).folderName /= None
       /\ InTree(NodeOfKey(node.parent[1]))

\* the events of a traversal: entering a folder, a script, leaving a folder
IsEnter(event) == event.item = "StartOfDirectory"
IsLeaf(event) == event.item = "Script"
IsExit(event) == event.item = "DirectoryEnd"
EventKey(event) == IF IsEnter(event) THEN event.directory.key ELSE event.script.key

\* folders entered less folders left among the first i events
Balance(events, i) ==
    Cardinality({k \in 1..i : IsEnter(events[k])})
        - Cardinality({k \in 1..i : IsExit(events[k])})

\* the keys of the folders that are open after the first i events, the
\* innermost last
RECURSIVE OpenFolders(_, _)
OpenFolders(events, i) ==
    IF i = 0 THEN <<>>
    ELSE LET open == OpenFolders(events, i - 1)
         IN  CASE IsEnter(events[i]) -> Append(open, events[i].directory.key)
               [] IsExit(events[i]) /\ open /= <<>> -> SubSeq(open, 1, Len(open) - 1)
               [] OTHER -> open

\* the parent under which the i-th event happens
ParentAt(events, i) ==
    LET open == OpenFolders(events, i - 1)
    IN  IF open = <<>> THEN None ELSE Some(open[Len(open)])

\* the line of the manifest for an event, without its tabs
Listed(event) ==
    CASE IsEnter(event) ->
            <<"Folder", "(", "'">> \o NodeOfKey(EventKey(event)).folderName[1]
                \o <<"'", ",", " ", "[">>
      [] IsLeaf(event) ->
            script_pymodd_class_name(Script(NodeOfKey(EventKey(event)).name[1],
                                            EventKey(event))) \o <<"(", ")", ",">>
      [] OTHER -> <<"]", ")", ",">>
RECURSIVE WithoutTabs(_)
WithoutTabs(line) ==
    IF line /= <<>> /\ Head(line) = TAB THEN WithoutTabs(Tail(line)) ELSE line

\* the traversal is nested, visits every node of the tree once and under its
\* own parent, and visits the children of one parent in ascending order
DepthFirstInOrder(events) ==
    LET visits == {i \in 1..Len(events) : ~IsExit(events[i])}
    IN  /\ \A i \in 1..Len(events) : Balance(events, i) >= 0
        /\ Balance(events, Len(events)) = 0
        /\ \A i \in visits :
              /\ HasNode(EventKey(events[i]))
              /\ NodeOfKey(EventKey(events[i])).parent = ParentAt(events, i)
              /\ IsEnter(events[i]) <=> NodeOfKey(EventKey(events[i])).folderName /= None
        /\ \A k \in 1..Len(scripts_data) :
              Cardinality({i \in visits : EventKey(events[i]) = scripts_data[k].key})
                  = IF InTree(scripts_data[k]) THEN 1 ELSE 0
        /\ \A i, j \in visits :
              (i < j /\ ParentAt(events, i) = ParentAt(events, j)) =>
                  NodeOfKey(EventKey(events[i])).order
                      <= NodeOfKey(EventKey(events[j])).order

\* C20: the flattened traversal of a directory built from a flat node map
\* emits the children of every parent in ascending order of their order
\* field, depth-first: a folder is entered, its whole subtree follows, and it
\* is left before its next sibling; at every step of build_directory_elements
\* the elements are the lines of the events consumed so far, in that
\* sequence, and at the return they are the lines of all of them.
C20_TraversalOrder ==
    (pc \in {"parsed", "for_each", "return"}) =>
        LET events == into_iter(directory)
        IN  /\ DepthFirstInOrder(events)
            /\ (pc \in {"for_each", "return"}) =>
                  /\ Len(elements) <= Len(events)
                  /\ game_items = SubSeq(events, Len(elements) + 1, Len(events))
                  /\ \A i \in 1..Len(elements) :
                        WithoutTabs(elements[i]) = Listed(events[i])
            /\ pc = "return" => Len(elements) = Len(events)

\* the map lists a folder of order 2 before a script of order 1, and a script
\* inside the folder last; the manifest lists the script of order 1 first
C20_Witness ==
    /\ pc = "return"
    /\ scripts_data = <<FolderNode("WI31HDK", s_initialize, None, 2),
                        ScriptNode("31IAD2B", s_utils, None, 1),
                        ScriptNode("HWI31WQ", s_other, Some("WI31HDK"), 1)>>
    /\ elements = << <<"U","t","i","l","s","(", ")", ",">>,
                     <<"Folder", "(", "'">> \o s_initialize \o <<"'", ",", " ", "[">>,
                     <<TAB, "O","t","h","e","r","(", ")", ",">>,
                     <<"]", ")", ",">> >>


-----------------------------------------------------------------------------
(* Alignment: the length and the content of the result *)

\* the slots of the result that hold the argument
SlotsHolding(arg) == {j \in 1..Len(aligned) : aligned[j] = arg}

\* C29: the result has exactly one argument per canonical parameter; with no
\* more arguments than parameters every input argument is in the result
\* exactly once and the other slots hold the null placeholder; with more
\* arguments than parameters every slot holds an input argument, none twice,
\* and the surplus is not in the result.
C29_ResultLength ==
    pc = "return" =>
        /\ Len(aligned) = Len(pymodd_structure_parameters)
        /\ Len(arguments) <= Len(pymodd_structure_parameters) =>
              /\ \A i \in 1..Len(arguments) : Cardinality(SlotsHolding(arguments[i])) = 1
              /\ \A j \in 1..Len(aligned) :
                    aligned[j] \in Range(arguments) \/ aligned[j] = null_argument
        /\ Len(arguments) > Len(pymodd_structure_parameters) =>
              /\ \A j \in 1..Len(aligned) : aligned[j] \in Range(arguments)
              /\ \A i \in 1..Len(arguments) : Cardinality(SlotsHolding(arguments[i])) <= 1
              /\ Cardinality({i \in 1..Len(arguments) : SlotsHolding(arguments[i]) = {}})
                    = Len(arguments) - Len(pymodd_structure_parameters)

\* three arguments against two parameters: `variable` claimed variableType,
\* `player` popped not_matching, and value was dropped
C29_Witness ==
    /\ pc = "return"
    /\ arguments = ArgumentsNamed(<<n_variableType, n_value, n_not_matching>>)
    /\ pymodd_structure_parameters = <<n_player, n_variable>>
    /\ aligned = <<arguments[3], arguments[1]>>


-----------------------------------------------------------------------------
(* Rendering: the comment action *)

\* the script is one comment action
IsCommentAction == Len(script_actions) = 1 /\ script_actions[1].name = "comment"

\* the flags of an action as trailing keyword arguments, each led by ", "
FlagQualifiers(action) ==
    (IF action.disabled THEN <<",", " ", "disabled", "=", "True">> ELSE <<>>)
        \o (IF action.ran_on_client THEN <<",", " ", "run_on_client", "=", "True">> ELSE <<>>)

\* C27: a comment action renders `comment('<text>'` followed by
\* `, disabled=True` exactly when the action is disabled and by
\* `, run_on_client=True` exactly when it ran on the client, in that order,
\* whether its comment text is present, absent or empty.
C27_CommentQualifiers ==
    (pc = "return" /\ IsCommentAction) =>
        \E quoted \in {2, 3} :
            /\ Len(content) >= 2 + quoted
            /\ SubSeq(content, 1, 3) = <<"comment", "(", "'">>
            /\ content[2 + quoted] = "'"
            /\ SubSeq(content, 3 + quoted, Len(content))
                   = FlagQualifiers(script_actions[1]) \o <<")", NL>>


-----------------------------------------------------------------------------
(* Rendering: a function the lookup table does not hold *)

\* the names the function lookup table of the model holds
TableFunctions == {"getOwner", "getTriggeringPlayer", "getPlayerId", "getRandomNumberBetween"}

\* the script is one action of the default form whose only argument is a
\* call, without arguments, of a function the table does not hold
IsUnknownFunctionProbe ==
    /\ IsDefaultForm
    /\ Len(script_actions[1].args) = 1
    /\ script_actions[1].args[1].value.av = "Function"
    /\ script_actions[1].args[1].value.function.name
           \notin TableFunctions \cup {"calculate", "condition", "concat"}
    /\ script_actions[1].args[1].value.function.args = <<>>

\* C23: a function whose name is not in the lookup table is still rendered,
\* as a call under its own literal name.
C23_UnknownFunctionName ==
    (pc = "return" /\ IsUnknownFunctionProbe) =>
        /\ Len(content) >= 5
        /\ SubSeq(content, 1, 2) = str(action_pymodd_class_name(script_actions[1])) \o <<"(">>
        /\ SubSeq(content, 3, 5)
               = <<script_actions[1].args[1].value.function.name, "(", ")">>


-----------------------------------------------------------------------------
(* Rendering: control-flow actions short of values *)

\* the script holds a condition, for or repeat action, at any depth
HasControlFlow ==
    \E action \in ActionsIn(script_actions) : action.name \in {"condition", "for", "repeat"}

\* C28: rendering a script with a condition, for or repeat action never
\* aborts, whatever values the action supplies: the call returns a text, and
\* the text ends with the rendering of the actions that follow the first one.
C28_NeverAborts ==
    HasControlFlow =>
        /\ pc /= "panic"
        /\ pc = "return" => ends_with(content, build_actions_content(Tail(script_actions)))


-----------------------------------------------------------------------------
(* Rendering: control-flow actions with qualifiers *)

\* the script is one condition, for or repeat action
IsControlFlowProbe ==
    /\ Len(script_actions) = 1
    /\ script_actions[1].name \in {"condition", "for", "repeat"}

\* the action without comment, enabled and not run on the client
Unqualified(action) ==
    [action EXCEPT !.comment = JNull, !.disabled = FALSE, !.ran_on_client = FALSE]

\* C30: the text of a condition, for or repeat action is the text of the
\* same action without comment and with both flags false, so a disabled
\* action renders as an enabled one; no qualifier is rendered unless an
\* action inside its blocks has one.
C30_ControlFlowIgnoresQualifiers ==
    (pc = "return" /\ IsControlFlowProbe) =>
        /\ content = build_action_content(Unqualified(script_actions[1]))
        /\ (\A block \in BlocksOf(script_actions[1]) : \A nested \in ActionsIn(block) :
                nested = Unqualified(nested)) =>
              \A piece \in {"comment", "disabled", "run_on_client"} :
                  Occurrences(content, piece) = 0

\* a disabled repeat action with a comment, rendered as the plain loop
C30_Witness ==
    /\ pc = "return"
    /\ IsControlFlowProbe
    /\ script_actions[1].name = "repeat"
    /\ script_actions[1].disabled
    /\ script_actions[1].comment = JStr("hi!")
    /\ content = <<"for", " ", "_", " ", "in", " ", "repeat", "(", "5", ")", ":", NL,
                   TAB, "send_chat_message_to_everyone", "(", "'", "hi", "'", ")", NL>>


-----------------------------------------------------------------------------
(* Directory traversal: the depth counter *)

\* the kinds of line of the manifest
IsFolderLine(line) == WithoutTabs(line) /= <<>> /\ Head(WithoutTabs(line)) = "Folder"
IsEndLine(line) == WithoutTabs(line) = <<"]", ")", ",">>

\* the end lines after line i that close the folder line i: at the same
\* indentation, with only deeper lines in between
EndLinesOf(i) ==
    {j \in (i + 1)..Len(elements) :
        /\ IsEndLine(elements[j])
        /\ LeadingTabs(elements[j]) = LeadingTabs(elements[i])
        /\ \A k \in (i + 1)..(j - 1) : LeadingTabs(elements[k]) > LeadingTabs(elements[i])}

\* the folder lines before line j that the end line j closes
FolderLinesOf(j) ==
    {i \in 1..(j - 1) : IsFolderLine(elements[i]) /\ j \in EndLinesOf(i)}

\* C25: while build_directory_elements walks a directory the depth counter
\* is the number of folders entered and not yet left, so it is never below
\* zero and is zero after the last event; a script line has as many tabs as
\* folders are open, a `Folder(..., [` line as many as were open before it;
\* and in the returned list every `Folder(..., [` line has exactly one
\* matching `]),` line at its indentation, and every `]),` line one folder
\* line.
C25_DepthCounter ==
    /\ pc /= "panic"
    /\ (pc \in {"for_each", "return"}) =>
          LET events == into_iter(directory)
          IN  /\ curr_depth >= 0
              /\ Len(elements) <= Len(events)
              /\ curr_depth = Balance(events, Len(elements))
              /\ \A i \in 1..Len(elements) :
                    LeadingTabs(elements[i]) =
                        IF IsExit(events[i]) THEN Balance(events, i)
                        ELSE Balance(events, i - 1)
    /\ pc = "return" =>
          /\ curr_depth = 0
          /\ \A i \in 1..Len(elements) :
                /\ IsFolderLine(elements[i]) => Cardinality(EndLinesOf(i)) = 1
                /\ IsEndLine(elements[i]) => Cardinality(FolderLinesOf(i)) = 1

\* a folder inside a folder with a script inside: the script under two tabs,
\* the inner folder closed under one
C25_Witness ==
    /\ pc = "return"
    /\ curr_depth = 0
    /\ Len(elements) = 5
    /\ IsFolderLine(elements[1])
    /\ SubSeq(elements[2], 1, 2) = <<TAB, "Folder">>
    /\ LeadingTabs(elements[3]) = 2
    /\ elements[4] = <<TAB, "]", ")", ",">>
    /\ elements[5] = <<"]", ")", ",">>

-----------------------------------------------------------------------------
(* ScriptsContentBuilder::build_script_content *)

\* Script::new(name, key, triggers, actions)
Script_new(name, key, triggers, actions) ==
    [kind |-> "Script", name |-> name, key |-> key,
     triggers |-> triggers, actions |-> actions]

\* a character outside ASCII that is no letter and no digit (a black star)
STAR == "U+2605"

\* str::to_uppercase
to_uppercase(s) == [i \in 1..Len(s) |-> to_uppercase_char(s[i])]

\* str::is_ascii
is_ascii(s) == \A i \in 1..Len(s) : s[i] /= STAR

\* Script::triggers_into_pymodd_enums: the enum of each trigger the table
\* of triggers holds
trigger_into_pymodd_enum(trigger) ==
    <<"Trigger", ".">> \o to_uppercase(to_snake_case(trigger))
triggers_into_pymodd_enums(script) ==
    [i \in 1..Len(script.triggers) |-> trigger_into_pymodd_enum(script.triggers[i])]

\* a script line that gets one tab
script_line_with_one_tab(action) == <<TAB>> \o action \o <<NL>>

\* format!("{}{action}\n", "\t".repeat(2))
script_line(action) == <<TAB, TAB>> \o action \o <<NL>>

build_script_content(script) ==
    LET class_name == script_pymodd_class_name(script)
        rendered == lines(build_actions_content(script.actions))
    IN  <<"@script", "(", "triggers", "=", "[">>
            \o join_with(triggers_into_pymodd_enums(script), <<",", " ">>)
            \o <<"]">>
            \o (IF is_ascii(script.name) THEN <<>>
                ELSE <<",", " ", "name", "=", "'">> \o script.name \o <<"'">>)
            \o <<")", NL, "class", " ">> \o class_name \o <<"(", ")", ":", NL>>
            \o <<TAB, "def", " ", "_build", "(", "self", ")", ":", NL>>
            \o (IF Len(script.actions) > 0
                THEN concat([i \in 1..Len(rendered) |-> script_line(rendered[i])])
                ELSE <<TAB, TAB, "pass", NL>>)

s_star == <<"a",STAR,"b">>
t_gameStart == <<"g","a","m","e","S","t","a","r","t">>
t_unitDeath == <<"u","n","i","t","D","e","a","t","h">>

ScriptNames == {s_initialize, s_spawn_boss, s_2nd_wave, s_star, <<>>}
TriggerLists == {<<>>, <<t_gameStart>>, <<t_gameStart, t_unitDeath>>}
ScriptActionLists == Blocks(1) \cup MalformedActions

InitScript ==
    /\ pc = "call"
    /\ \E name \in ScriptNames, triggers \in TriggerLists, actions \in ScriptActionLists :
           a_script = Script_new(name, "WI31HDK", triggers, actions)
    /\ categories_to_variables = <<shops>>
    /\ root_directory = EmptyRoot
    /\ script_actions = <<>> /\ content = <<>>
    /\ arguments = <<>> /\ pymodd_structure_parameters = <<>>
    /\ aligned_args = <<>> /\ unplaced = <<>> /\ aligned = <<>>
    /\ variables = <<>> /\ resolved = <<>>
    /\ object_data = <<>> /\ args = <<>>
    /\ scripts_data = <<>> /\ directory = <<>> /\ game_items = <<>>
    /\ elements = <<>> /\ curr_depth = 0
    /\ game_data = <<>> /\ category_to_variables = <<>>
    /\ category_to_entity_types = <<>> /\ generated = <<>>

\* build_script_content(a_script); a panic inside it leaves no text
BuildScriptContent ==
    /\ pc = "call"
    /\ \E text \in {build_script_content(a_script)} :
           IF \E i \in 1..Len(text) : text[i] = PANIC
           THEN pc' = "panic" /\ content' = <<>>
           ELSE pc' = "return" /\ content' = text
    /\ UNCHANGED <<categories_to_variables, root_directory, script_actions,
                   alignVars, dedupVars, parseVars, directoryVars,
                   scriptVars, gameDataVars>>

NextScript == BuildScriptContent

SpecScript == InitScript /\ [][NextScript]_vars

-----------------------------------------------------------------------------
(* build_script_content: properties *)

\* the first line of the method, and what follows it in the content
BuildLine == <<TAB, "def", " ", "_build", "(", "self", ")", ":">>
ClassLine == <<"class", " ">> \o script_pymodd_class_name(a_script) \o <<"(", ")", ":">>
BodyLines == SubSeq(lines(content), 4, Len(lines(content)))
ActionLines == lines(build_actions_content(a_script.actions))

\* C21: the script file is a decorator line, a class line that carries the
\* class name made from the display name and the line of the _build method;
\* a script without actions has the body "\t\tpass" and nothing else, a
\* script with actions has one body line per rendered action line, each made
\* of two tabs and that line
C21_ScriptContent ==
    pc = "return" /\ a_script /= <<>> =>
        /\ Len(lines(content)) >= 3
        /\ Head(lines(content)[1]) = "@script"
        /\ lines(content)[2] = ClassLine
        /\ lines(content)[3] = BuildLine
        /\ content[Len(content)] = NL
        /\ a_script.actions = <<>> => BodyLines = << <<TAB, TAB, "pass">> >>
        /\ a_script.actions /= <<>> =>
               /\ Len(BodyLines) = Len(ActionLines)
               /\ \A i \in 1..Len(BodyLines) : BodyLines[i] = <<TAB, TAB>> \o ActionLines[i]

\* a script of several rendered lines, one of them inside a block, returned
C21_Witness ==
    /\ pc = "return" /\ a_script /= <<>>
    /\ Len(a_script.actions) > 0
    /\ Len(BodyLines) >= 3
    /\ \E i \in 1..Len(BodyLines) : SubSeq(BodyLines[i], 1, 3) = <<TAB, TAB, TAB>>
    /\ \E i \in 1..Len(BodyLines) : BodyLines[i][3] /= TAB

-----------------------------------------------------------------------------
(* CategoriesToVariables::parse and CategoryToEntityTypes::parse.  The keys *)
(* of the objects of this part are strings                                  *)

\* most members of one category of the document
MaxMembers == 2

VARIABLE_CATEGORIES ==
    <<"animationTypes", "attributeTypes", "dialogues", "entityTypeVariables",
      "itemTypes", "music", "projectileTypes", "playerTypes", "playerTypeVariables",
      "shops", "sound", "states", "unitTypes">>
VARIABLES_CATEGORY == "variables"
SEPERATED_VARIABLE_CATEGORIES == <<"regions", "itemTypeGroups", "unitTypeGroups">>
ENTITY_TYPE_CATEGORIES == <<"unitTypes", "projectileTypes", "itemTypes">>

\* Value::get(key): None on a value that is no object or has no such member
get(value, key) ==
    IF contains_key(as_object_or_empty(value), key)
    THEN Some(get_or_null(as_object_or_empty(value), key))
    ELSE None

\* heck::AsShoutySnakeCase
to_shouty_snake_case(s) == to_uppercase(to_snake_case(s))

\* parse_data_type: the dataType when it is a string that is not empty
parse_data_type(data_type) ==
    IF data_type /= None /\ data_type[1].kind = "string" /\ data_type[1].s /= ""
    THEN Some(data_type[1].s)
    ELSE None

\* node.get("name").unwrap_or(&Value::String(default)).as_str(): the default
\* stands in for an absent name only
name_as_str(node, default) ==
    IF get(node, "name") = None THEN Some(default)
    ELSE IF get(node, "name")[1].kind = "string" THEN Some(get(node, "name")[1].s)
    ELSE None

\* .as_str().unwrap() on a node of the category whose name is no string
unwrap_panics(category_data) ==
    \E i \in 1..Len(as_object_or_empty(category_data)) :
        name_as_str(as_object_or_empty(category_data)[i].v, "") = None

\* the variables of a category none of whose names panics
variables_from_category_data(category_data) ==
    LET members == as_object_or_empty(category_data)
    IN  [i \in 1..Len(members) |->
            Variable(members[i].k,
                     to_shouty_snake_case(
                         chars(name_as_str(members[i].v, members[i].k)[1])),
                     parse_data_type(get(members[i].v, "dataType")))]

\* the category a variable of "variables" goes to: its data type and an "s"
\* when that is a seperated category
seperated_category_of(variable) ==
    IF variable.data_type /= None
           /\ \E i \in 1..Len(SEPERATED_VARIABLE_CATEGORIES) :
                  chars(SEPERATED_VARIABLE_CATEGORIES[i])
                      = chars(variable.data_type[1]) \o <<"s">>
    THEN CHOOSE category \in Range(SEPERATED_VARIABLE_CATEGORIES) :
             chars(category) = chars(variable.data_type[1]) \o <<"s">>
    ELSE VARIABLES_CATEGORY

seperated_variables_categories(variables_category_data) ==
    LET category_variables == variables_from_category_data(variables_category_data)
    IN  [category \in Range(SEPERATED_VARIABLE_CATEGORIES) \cup {VARIABLES_CATEGORY} |->
            SelectSeq(category_variables,
                      LAMBDA variable : seperated_category_of(variable) = category)]

\* CategoriesToVariables::parse
CategoriesToVariables_parse(data) ==
    LET of_category(category) ==
            IF get(data, category) = None THEN <<>>
            ELSE variables_from_category_data(get(data, category)[1])
        seperated == seperated_variables_categories(
                         IF get(data, VARIABLES_CATEGORY) = None THEN JNull
                         ELSE get(data, VARIABLES_CATEGORY)[1])
    IN  [category \in Range(VARIABLE_CATEGORIES) \cup DOMAIN seperated |->
            IF category \in DOMAIN seperated THEN seperated[category]
            ELSE resolve_duplicate_variable_enum_names(of_category(category))]

\* a category of the document that a parse reads has a name that panics
parse_panics(data, categories) ==
    \E category \in categories :
        get(data, category) /= None /\ unwrap_panics(get(data, category)[1])

\* EntityType
EntityType(name, entity_directory) == [name |-> name, directory |-> entity_directory]

\* the flat map of the scripts of an entity type, as Directory::parse reads it
script_nodes(scripts) ==
    [i \in 1..Len(as_object_or_empty(scripts)) |->
        ScriptNode(as_object_or_empty(scripts)[i].k, s_initialize, None, i)]

entity_types_from_category_data(category_data) ==
    LET members == as_object_or_empty(category_data)
    IN  [i \in 1..Len(members) |->
            EntityType(name_as_str(members[i].v, "Undefined")[1],
                       Directory_parse(script_nodes(
                           IF get(members[i].v, "scripts") = None THEN JArr(<<>>)
                           ELSE get(members[i].v, "scripts")[1])))]

\* CategoryToEntityTypes::parse
CategoryToEntityTypes_parse(data) ==
    LET of_category(category) ==
            IF get(data, category) = None THEN <<>>
            ELSE entity_types_from_category_data(get(data, category)[1])
    IN  [category \in Range(ENTITY_TYPE_CATEGORIES) |-> of_category(category)]

\* the nodes of a category: with a name, without, with a name that is no
\* string, with a data type, with scripts, and a node that is no object
a_scripts == JObj(<<Member("WI31HDK", JObj(<<Member("name", JStr("initialize"))>>))>>)
CategoryNodes ==
    {JObj(<<Member("name", JStr("apple"))>>),
     JObj(<<Member("name", JStr("banana")), Member("dataType", JStr(""))>>),
     JObj(<<Member("name", JStr("apple")), Member("dataType", JStr("region"))>>),
     JObj(<<Member("dataType", JStr("unitTypeGroup"))>>),
     JObj(<<Member("name", JStr("apple")), Member("scripts", a_scripts)>>),
     JObj(<<Member("name", JNull)>>),
     JObj(<<Member("name", JNum(5)), Member("dataType", JNum(5))>>),
     JObj(<<Member("name", JObj(<<>>))>>),
     JNull}

\* the data of a category: an object of nodes under the ids "1", "2", ..., or
\* a value that is no object
CategoryData ==
    {JObj([i \in 1..Len(nodes) |-> Member(ToString(i), nodes[i])]) :
        nodes \in SeqsUpTo(CategoryNodes, MaxMembers)}
        \cup {JNull, JArr(<<>>), JStr("apple"), JNum(5)}

InitGameData ==
    /\ pc = "call"
    /\ \/ game_data \in {JObj(<<>>), JNull}
       \/ \E category \in {"shops", "variables", "unitTypes"}, data \in CategoryData :
              game_data = JObj(<<Member(category, data)>>)
    /\ category_to_variables = <<>> /\ category_to_entity_types = <<>>
    /\ generated = <<>> /\ a_script = <<>>
    /\ categories_to_variables = <<>> /\ root_directory = <<>>
    /\ script_actions = <<>> /\ content = <<>>
    /\ arguments = <<>> /\ pymodd_structure_parameters = <<>>
    /\ aligned_args = <<>> /\ unplaced = <<>> /\ aligned = <<>>
    /\ variables = <<>> /\ resolved = <<>>
    /\ object_data = <<>> /\ args = <<>>
    /\ scripts_data = <<>> /\ directory = <<>> /\ game_items = <<>>
    /\ elements = <<>> /\ curr_depth = 0

\* CategoriesToVariables::parse(game_data)
ParseVariableCategories ==
    /\ pc = "call"
    /\ IF parse_panics(game_data, Range(VARIABLE_CATEGORIES) \cup {VARIABLES_CATEGORY})
       THEN pc' = "panic" /\ UNCHANGED category_to_variables
       ELSE pc' = "return"
                /\ category_to_variables' = CategoriesToVariables_parse(game_data)
    /\ UNCHANGED <<game_data, category_to_entity_types, generated, scriptVars,
                   alignVars, dedupVars, parseVars, renderVars, directoryVars>>

\* CategoryToEntityTypes::parse(game_data)
ParseEntityTypes ==
    /\ pc = "call"
    /\ IF parse_panics(game_data, Range(ENTITY_TYPE_CATEGORIES))
       THEN pc' = "panic" /\ UNCHANGED category_to_entity_types
       ELSE pc' = "return"
                /\ category_to_entity_types' = CategoryToEntityTypes_parse(game_data)
    /\ UNCHANGED <<game_data, category_to_variables, generated, scriptVars,
                   alignVars, dedupVars, parseVars, renderVars, directoryVars>>

NextGameData == ParseVariableCategories \/ ParseEntityTypes

SpecGameData == InitGameData /\ [][NextGameData]_vars

-----------------------------------------------------------------------------
(* Parsing the categories: properties *)

\* the name a node yields when nothing fails: its name when that is a
\* string, the default otherwise
NameOrDefault(node, default) ==
    IF get(node, "name") /= None /\ get(node, "name")[1].kind = "string"
    THEN get(node, "name")[1].s
    ELSE default

\* the data of a category of the document, null when there is none
DataOf(category) ==
    IF get(game_data, category) = None THEN JNull ELSE get(game_data, category)[1]

\* C22: parsing never aborts, and what it returns holds, for every node of
\* a category, the name of the node or the default (the id of a variable,
\* "Undefined" for an entity type); a category that is no object is empty
C22_ParsingNeverFails ==
    /\ pc /= "panic"
    /\ (pc = "return" /\ DOMAIN category_to_variables /= {}) =>
           LET nodes == as_object_or_empty(DataOf("shops"))
           IN  /\ Len(category_to_variables["shops"]) = Len(nodes)
               /\ \A i \in 1..Len(nodes) :
                      LET enum_name == to_shouty_snake_case(
                                           chars(NameOrDefault(nodes[i].v, nodes[i].k)))
                      IN  SubSeq(category_to_variables["shops"][i].enum_name,
                                 1, Len(enum_name)) = enum_name
    /\ (pc = "return" /\ DOMAIN category_to_entity_types /= {}) =>
           LET nodes == as_object_or_empty(DataOf("unitTypes"))
           IN  /\ Len(category_to_entity_types["unitTypes"]) = Len(nodes)
               /\ \A i \in 1..Len(nodes) :
                      category_to_entity_types["unitTypes"][i].name
                          = NameOrDefault(nodes[i].v, "Undefined")


\* the enum names of a category are pairwise different
DistinctEnumNames(category_variables) ==
    \A i, j \in 1..Len(category_variables) :
        i /= j => category_variables[i].enum_name /= category_variables[j].enum_name

\* C26: in the resolver that parse returns, the variables of `variables`
\* and of each category split out of it (regions, itemTypeGroups,
\* unitTypeGroups) have pairwise different enum names
C26_DedupEveryCategory ==
    (pc = "return" /\ DOMAIN category_to_variables /= {}) =>
        \A category \in Range(SEPERATED_VARIABLE_CATEGORIES) \cup {VARIABLES_CATEGORY} :
            DistinctEnumNames(category_to_variables[category])

-----------------------------------------------------------------------------
(* Two runs of the generator on one document.  A HashMap is visited in the  *)
(* order its RandomState gives; each run builds its own maps.               *)

\* the orders in which a HashMap with the keys S can be visited
IterationOrders(S) ==
    {order \in [1..Cardinality(S) -> S] :
        \A i, j \in 1..Cardinality(S) : i /= j => order[i] /= order[j]}

\* the categories of a map that hold something; the others yield nothing
\* in whatever place they are visited
NonEmpty(map) == {category \in DOMAIN map : map[category] /= <<>>}

\* Directory::is_empty
is_empty(a_directory) == a_directory.children = <<>>

\* EntityType::class_name
entity_type_class_name(entity_type) ==
    LET class_name == to_pascal_case(chars(entity_type.name))
    IN  IF ~is_valid_class_name(class_name) THEN <<"q">> \o class_name ELSE class_name

\* retrieve_clases_of_entity_scripts, the map visited in the given order
retrieve_clases_of_entity_scripts(entity_type_categories, order) ==
    LET entity_types == concat([i \in 1..Len(order) |-> entity_type_categories[order[i]]])
        with_scripts == SelectSeq(entity_types,
                                  LAMBDA entity_type : ~is_empty(entity_type.directory))
    IN  [i \in 1..Len(with_scripts) |->
            entity_type_class_name(with_scripts[i]) \o <<"(", ")">>]

an_apple == JObj(<<Member("name", JStr("apple")), Member("scripts", a_scripts)>>)
a_banana == JObj(<<Member("name", JStr("banana")), Member("scripts", a_scripts)>>)

\* the data of the categories of the documents that are generated twice
GeneratedData ==
    {JObj(<<Member("1", an_apple)>>),
     JObj(<<Member("2", a_banana)>>),
     JObj(<<Member("1", JObj(<<Member("name", JStr("banana"))>>))>>),
     JObj(<<Member("1", an_apple), Member("2", a_banana)>>)}

Documents ==
    {JObj(SelectSeq(<<Member("unitTypes", data[1]), Member("itemTypes", data[2]),
                      Member("shops", data[3])>>,
                    LAMBDA member : member.v /= JNull)) :
        data \in (GeneratedData \cup {JNull}) \X (GeneratedData \cup {JNull})
                     \X {JObj(<<Member("1", an_apple)>>), JNull}}

InitGenerate ==
    /\ pc = "call"
    /\ game_data \in Documents
    /\ \E id \in {"1", "2", "3"} : script_actions = <<send(Val(JStr(id)))>>
    /\ root_directory = EmptyRoot
    /\ categories_to_variables = <<>>
    /\ category_to_variables = <<>> /\ category_to_entity_types = <<>>
    /\ generated = <<>> /\ a_script = <<>> /\ content = <<>>
    /\ arguments = <<>> /\ pymodd_structure_parameters = <<>>
    /\ aligned_args = <<>> /\ unplaced = <<>> /\ aligned = <<>>
    /\ variables = <<>> /\ resolved = <<>>
    /\ object_data = <<>> /\ args = <<>>
    /\ scripts_data = <<>> /\ directory = <<>> /\ game_items = <<>>
    /\ elements = <<>> /\ curr_depth = 0

\* a run parses the document into maps of its own; categories_to_variables
\* is the map of the variables in the order this run visits it
ParseGameData ==
    /\ pc = "call"
    /\ pc' = "parsed"
    /\ category_to_variables' = CategoriesToVariables_parse(game_data)
    /\ category_to_entity_types' = CategoryToEntityTypes_parse(game_data)
    /\ \E parsed \in {CategoriesToVariables_parse(game_data)} :
           \E order \in IterationOrders(NonEmpty(parsed)) :
               categories_to_variables' =
                   [i \in 1..Len(order) |-> Category(chars(order[i]), parsed[order[i]])]
    /\ UNCHANGED <<game_data, generated, root_directory, script_actions, content,
                   scriptVars, alignVars, dedupVars, parseVars, directoryVars>>

\* a run writes the classes of self.entity_scripts and the text of the
\* actions; the second run ends the comparison
Generate ==
    /\ pc = "parsed"
    /\ \E order \in IterationOrders(NonEmpty(category_to_entity_types)) :
           generated' = Append(generated,
               [entity_scripts |->
                    retrieve_clases_of_entity_scripts(category_to_entity_types, order),
                content |-> build_actions_content(script_actions)])
    /\ pc' = IF Len(generated) = 0 THEN "call" ELSE "return"
    /\ UNCHANGED <<game_data, category_to_variables, category_to_entity_types,
                   scriptVars, alignVars, dedupVars, parseVars, renderVars, directoryVars>>

NextGenerate == ParseGameData \/ Generate

SpecGenerate == InitGenerate /\ [][NextGenerate]_vars

-----------------------------------------------------------------------------
(* Two runs: properties *)

\* C24: two runs on one document write the same text: the same classes in
\* the same order in self.entity_scripts and the same category for a
\* literal that is an id of several categories
C24_Deterministic ==
    Len(generated) = 2 => generated[1] = generated[2]

=============================================================================
